---- MODULE Spec2Model ----
(***************************************************************************)
(* A model of the chunked I/O pipeline of lettuce: the Chunk Set           *)
(* (chunk.Chunks), the filer Entry with its on-add hook, the chunk Writer  *)
(* with its buffer goroutine, the File facade around it, and the chunk     *)
(* Reader with its prefetch producer and per-chunk fetch workers.          *)
(*                                                                         *)
(* Bytes of the written stream are the numbers 1, 2, 3, ... in stream      *)
(* order, so the i-th byte handed to Write is i; 0 stands for a byte that  *)
(* was never written by the caller (stale content of a pooled slice).      *)
(***************************************************************************)
EXTENDS Integers, Sequences, FiniteSets, TLC

\* ------------------------------------------------------------------ bounds

\* Largest number of bytes the caller hands to Write over a run.
MaxBytes == 3

\* Largest chunk size (Writer.chunkSize) tried.
MaxChunkSize == 2

\* Largest number of Close calls the caller issues.
MaxCloses == 2

\* ------------------------------------------------------------------ helpers

Min(a, b) == IF a <= b THEN a ELSE b

Take(s, n) == SubSeq(s, 1, Min(n, Len(s)))

Drop(s, n) == SubSeq(s, Min(n, Len(s)) + 1, Len(s))

\* The bytes number a+1 .. a+k of the written stream.
Bytes(a, k) == [i \in 1..k |-> a + i]

\* k stale bytes of a pooled slice.
Stale(k) == [i \in 1..k |-> 0]

\* ------------------------------------------------------------------ Offset

\* Offset.Before: the end of a occurs before (or at) the start of b.
Before(a, b) == a.end <= b.start

\* Offset.Contains: a closed interval.
Contains(o, p) == o.start <= p /\ p <= o.end

\* ------------------------------------------------------------------ Chunk Set

\* A chunk of the set: its Offset, its position and the file id it is stored under.
NewChunk(fc, p) ==
    [start |-> fc.offset, end |-> fc.offset + fc.size, pos |-> p, fid |-> fc.fid]

EmptyChunks == [m |-> {}, size |-> 0, min |-> 0, max |-> 0]

\* One pass of the inner loop of the insertion sort: x enters the sorted prefix s.
RECURSIVE InsertInto(_, _)
InsertInto(s, x) ==
    IF s = <<>> THEN <<x>>
    ELSE IF Before(x, s[Len(s)])
         THEN Append(InsertInto(SubSeq(s, 1, Len(s) - 1), x), s[Len(s)])
         ELSE Append(s, x)

\* sort.Slice with less = Offset.Before on at most 12 elements: an insertion sort.
RECURSIVE InsertionSort(_)
InsertionSort(p) ==
    IF p = <<>> THEN <<>>
    ELSE InsertInto(InsertionSort(SubSeq(p, 1, Len(p) - 1)), p[Len(p)])

\* The orders in which a range over the map may visit its chunks.
MapOrders(m) ==
    {p \in [1..Cardinality(m) -> m] : \A x \in m : \E i \in 1..Cardinality(m) : p[i] = x}

\* Chunks.List: the map's chunks, in some iteration order, sorted by Before.
\* For chunks that do not overlap the result is the one ascending order.
List(cs) == {InsertionSort(p) : p \in MapOrders(cs.m)}

\* No Offset is ever taken for a key of the map.
HasNoOffset(cs, fc) == FALSE

\* c.chunks[off]: the Offset {start, end} of fc is a key of the map.
HasOffset(cs, fc) ==
    \E c \in cs.m : c.start = fc.offset /\ c.end = fc.offset + fc.size

\* Chunks.setChunkMinMax.
SetChunkMinMax(cs, size) ==
    LET min1 == IF cs.min = 0 THEN size ELSE cs.min
        max1 == IF cs.max = 0 THEN size ELSE cs.max
        max2 == IF size > max1 THEN size ELSE max1
        min2 == IF size < max2 THEN size ELSE min1
    IN  [cs EXCEPT !.min = min2, !.max = max2]

\* The position Add starts from: one past the position of the last listed chunk.
StartPositions(cs) ==
    IF cs.m = {} THEN {0} ELSE {l[Len(l)].pos + 1 : l \in List(cs)}

\* The body of the loop of Chunks.Add for one chunk, at position p.
AddOne(cs, fc, p) ==
    IF HasOffset(cs, fc) THEN cs
    ELSE LET ck == NewChunk(fc, p)
             c1 == [cs EXCEPT !.m = cs.m \cup {ck}]
             c2 == SetChunkMinMax(c1, ck.end - ck.start)
         IN  [c2 EXCEPT !.size = cs.size + (ck.end - ck.start)]

\* The loop of Chunks.Add over the chunks fcs, starting at position p.
RECURSIVE AddFrom(_, _, _)
AddFrom(cs, fcs, p) ==
    IF fcs = <<>> THEN cs
    ELSE AddFrom(AddOne(cs, Head(fcs), p), Tail(fcs),
                 IF HasOffset(cs, Head(fcs)) THEN p ELSE p + 1)

\* Chunks.Add without its hook: every chunk set the call may leave.
Add(cs, fcs) == {AddFrom(cs, fcs, p) : p \in StartPositions(cs)}

\* The map is emptied and the scalars are left as they were.
ClearChunksOnly(cs) == [cs EXCEPT !.m = {}]

\* Chunks.Clear.
Clear(cs) == EmptyChunks

\* Chunks.Len.
ChunksLen(cs) == Cardinality(cs.m)

\* Chunks.Size.
ChunksSize(cs) == cs.size

\* find, as used by Chunks.AtOffset: the first chunk of the map's iteration
\* whose Offset contains p; any containing chunk may come first.
AtOffset(cs, p) ==
    IF p < 0 \/ p > cs.size THEN {}
    ELSE {c \in cs.m : Contains(c, p)}

\* ------------------------------------------------------------------ Entry

\* The protobuf entry a file is created with (Filer.Create).
NewFilePB == [isDir |-> FALSE, hasAttrs |-> TRUE, fileSize |-> 0, chunks |-> <<>>]

\* Entry.update, the hook the entry installs on its Chunk Set: every protobuf
\* entry the call may leave (the chunk list is one of the set's listings).
EntryUpdate(e, cs) ==
    IF ~e.isDir /\ e.hasAttrs /\ cs.m # {}
    THEN {[e EXCEPT !.fileSize = cs.size, !.chunks = l] : l \in List(cs)}
    ELSE {e}

\* The error Entry.update returns for a Chunk Set that is not nil: none, whatever
\* the protobuf entry holds.
UpdateErr(e, cs) == "nil"

\* Entry.Size.
EntrySize(e) == IF ~e.isDir /\ e.hasAttrs THEN e.fileSize ELSE 0

\* ------------------------------------------------------------------ state

VARIABLES
    via,        \* "writer": the caller drives the Writer itself; "file": through a File
    chunkSize,  \* Writer.chunkSize
    wbuf,       \* Writer.buf
    woffset,    \* Writer.offset
    wclosed,    \* Writer.closed
    werr,       \* Writer.err ("nil" when unset)
    wmutex,     \* holder of Writer.mutex: "free" or "caller"
    qclosed,    \* Writer.queue has been closed
    wgBuf,      \* counter of Writer.wgBuf
    wgWrite,    \* counter of Writer.wgWrite
    pc,         \* where the caller and the buffer goroutine stand
    fl,         \* locals of the flush pass (Writer.write) each of them runs
    wb,         \* the slice of the Write in progress
    cks,        \* the entry's Chunk Set
    pb,         \* the entry's protobuf entry
    volume,     \* what the data nodes store, by file id
    uploads,    \* every upload attempted: file id and how it ended
    nextFid,    \* the next file id AssignVolume hands out
    handed,     \* bytes handed to Write so far
    accepted,   \* bytes for which Write returned len(b), nil
    calls,      \* the calls that returned, oldest first
    late,       \* the call in progress began after a flush pass had failed
    flushErr,   \* the error of the first flush pass that failed ("nil" before)
    fclosed,    \* File.closed
    wOff,       \* File.wOff
    updates,    \* the chunk lists of the UpdateEntry requests sent, oldest first
    closes,     \* Close calls the caller has begun
    wctx        \* the writer's context: "live" or "cancelled"

wvars == <<via, chunkSize, wbuf, woffset, wclosed, werr, wmutex, qclosed, wgBuf,
           wgWrite, pc, fl, wb, cks, pb, volume, uploads, nextFid, handed,
           accepted, calls, late, flushErr, fclosed, wOff, updates, closes, wctx>>

VARIABLES
    ropen,      \* a Reader has been constructed over the Chunk Set
    rsize,      \* Reader.size
    roffset,    \* Reader.offset
    rbuf,       \* Reader.buf
    rerr,       \* Reader.err ("nil" when unset)
    rq,         \* Reader.queue: "nil", "open" or "closed"
    rlist,      \* the listing the prefetch producer iterates
    prod,       \* the prefetch producer of Reader.queue
    pcancelled, \* the producer's context has been cancelled
    pcur,       \* the producer's context is the reader's current one
    wk,         \* the fetch worker of each chunk of rlist
    rpc,        \* where the consumer stands in Read
    rcall,      \* locals of the Read in progress
    rlast,      \* what the last Read returned
    rstart,     \* the position the last Seek (or the constructor) returned
    rdelivered, \* the bytes Read has delivered since then
    seeks,      \* Seek calls so far
    rfault,     \* a fetch of the reader has failed
    rclosed,    \* Reader.closed
    rcloses     \* Close calls on the reader so far

rvars == <<ropen, rsize, roffset, rbuf, rerr, rq, rlist, prod, pcancelled, pcur, wk,
           rpc, rcall, rlast, rstart, rdelivered, seeks, rfault, rclosed, rcloses>>

VARIABLES
    cop,        \* the last operation a caller performed on the Chunk Set itself
    etr,        \* an Entry.Truncate in progress, and what another goroutine read
    ctr,        \* a Cluster.Truncate: its inputs and the requests it has sent
    wat         \* the watcher: its subscription, its loop and its outbound channel

\* What lies outside the Chunk Set's own operations.
xvars == <<etr, ctr, wat>>

cvars == <<cop, xvars>>

Procs == {"caller", "buffer"}

\* bufferSizeMax of the slice pool.
BufferSizeMax == 4194304

\* support.AcquireBufferN: the length of the slice it returns.
AcquireBufferN(size) == IF size <= 0 \/ size > BufferSizeMax THEN BufferSizeMax ELSE size

\* The locals of a flush pass that has not begun.
NoFlush == [c |-> [fid |-> 0, offset |-> 0, len |-> 0, fill |-> <<>>],
            n |-> 0, b |-> <<>>, ret |-> "nil", tail |-> FALSE]

\* The bytes of a pooled slice: what was read into it, then what it held before.
Body(c) == c.fill \o Stale(c.len - Len(c.fill))

\* How an upload may end: 2xx with the size received, 204 No Content, a non-2xx
\* status, a transport error, a 2xx whose body does not decode.
UploadOutcomes == {"ok", "nocontent", "status", "transport", "decode"}

\* UploadSucceeded as it would be if no failure of an upload were noticed.
UploadAlways(o) == TRUE

\* The outcomes for which Writer.upload returns a result and no error.
UploadSucceeded(o) == o \in {"ok", "nocontent"}

\* A Writer as NewWriter leaves it, its goroutine waiting on the queue, and a File
\* as newFile leaves it.
WriterIdle ==
    /\ wbuf = <<>>
    /\ woffset = 0
    /\ wclosed = FALSE
    /\ werr = "nil"
    /\ wmutex = "free"
    /\ qclosed = FALSE
    /\ wgBuf = 0
    /\ wgWrite = 0
    /\ pc = [p \in Procs |-> IF p = "caller" THEN "idle" ELSE "g_recv"]
    /\ fl = [p \in Procs |-> NoFlush]
    /\ wb = <<>>
    /\ uploads = {}
    /\ handed = 0
    /\ accepted = 0
    /\ calls = <<>>
    /\ late = FALSE
    /\ flushErr = "nil"
    /\ fclosed = FALSE
    /\ wOff = 0
    /\ updates = <<>>
    /\ closes = 0
    /\ wctx = "live"

\* The same on a cluster whose master has assigned no file id yet.
WriterFresh == WriterIdle /\ nextFid = 1

\* A file just created: no chunks, nothing stored.
WriterInit ==
    /\ via \in {"writer", "file"}
    /\ chunkSize \in 1..MaxChunkSize
    /\ cks = EmptyChunks
    /\ pb = NewFilePB
    /\ volume = <<>>
    /\ WriterFresh

\* No operation on the Chunk Set itself yet. An operation leaves its name, its
\* arguments (fcs for Add, p for AtOffset) and its results (n chunks inserted
\* by Add and the error Add returned; the chunk found by AtOffset, none for an
\* error; the listing of List).
NoOp == [op |-> "none", fcs |-> <<>>, n |-> 0, p |-> 0, found |-> <<>>, list |-> <<>>,
         err |-> "nil"]

\* No Entry.Truncate has begun, and no other goroutine has read the entry.
NoTruncate == [pc |-> "idle", seen |-> <<>>]

\* No Cluster.Truncate.
NoCluster == [pc |-> "none"]

\* No watcher.
NoWatcher == [pc |-> "none"]

XNone == etr = NoTruncate /\ ctr = NoCluster /\ wat = NoWatcher

\* ------------------------------------------------------------------ Writer.write

\* wgWrite.Add(1) on entry.
FlushEnter(p) ==
    /\ pc[p] = "f_add"
    /\ wgWrite' = wgWrite + 1
    /\ fl' = [fl EXCEPT ![p] = NoFlush]
    /\ pc' = [pc EXCEPT ![p] = "f_loop"]
    /\ UNCHANGED <<via, chunkSize, wbuf, woffset, wclosed, werr, wmutex, qclosed, wgBuf,
                   wb, cks, pb, volume, uploads, nextFid, handed, accepted, calls,
                   late, flushErr, fclosed, wOff, updates, closes,
                   wctx, rvars, cvars>>

\* for buf.Len() >= w.chunkSize
FlushLoop(p) ==
    /\ pc[p] = "f_loop"
    /\ IF Len(wbuf) >= chunkSize
       THEN /\ fl' = [fl EXCEPT ![p].tail = FALSE]
            /\ pc' = [pc EXCEPT ![p] = "f_acq"]
       ELSE /\ fl' = fl
            /\ pc' = [pc EXCEPT ![p] = "f_tail"]
    /\ UNCHANGED <<via, chunkSize, wbuf, woffset, wclosed, werr, wmutex, qclosed, wgBuf,
                   wgWrite, wb, cks, pb, volume, uploads, nextFid, handed, accepted,
                   calls, late, flushErr, fclosed, wOff, updates, closes,
                   wctx, rvars, cvars>>

\* if w.closed && buf.Len() > 0
FlushTail(p) ==
    /\ pc[p] = "f_tail"
    /\ IF wclosed /\ Len(wbuf) > 0
       THEN /\ fl' = [fl EXCEPT ![p].tail = TRUE]
            /\ pc' = [pc EXCEPT ![p] = "f_acq"]
       ELSE /\ fl' = fl
            /\ pc' = [pc EXCEPT ![p] = "f_snap"]
    /\ UNCHANGED <<via, chunkSize, wbuf, woffset, wclosed, werr, wmutex, qclosed, wgBuf,
                   wgWrite, wb, cks, pb, volume, uploads, nextFid, handed, accepted,
                   calls, late, flushErr, fclosed, wOff, updates, closes,
                   wctx, rvars, cvars>>

\* Writer.acquireChunk: a volume assignment, which may fail, and a pooled slice.
FlushAcquire(p) ==
    /\ pc[p] = "f_acq"
    /\ \E assigned \in BOOLEAN :
         IF assigned
         THEN /\ fl' = [fl EXCEPT ![p].c =
                          [fid |-> nextFid, offset |-> woffset, fill |-> <<>>,
                           len |-> AcquireBufferN(IF fl[p].tail THEN Len(wbuf)
                                                  ELSE chunkSize)]]
              /\ nextFid' = nextFid + 1
              /\ pc' = [pc EXCEPT ![p] = "f_read"]
         ELSE /\ fl' = [fl EXCEPT ![p].ret = "assign"]
              /\ nextFid' = nextFid
              /\ pc' = [pc EXCEPT ![p] = "f_ret"]
    /\ UNCHANGED <<via, chunkSize, wbuf, woffset, wclosed, werr, wmutex, qclosed, wgBuf,
                   wgWrite, wb, cks, pb, volume, uploads, handed, accepted, calls,
                   late, flushErr, fclosed, wOff, updates, closes,
                   wctx, rvars, cvars>>

\* n, err := buf.Read(c.content): io.EOF from an empty buffer.
FlushRead(p) ==
    /\ pc[p] = "f_read"
    /\ IF wbuf = <<>>
       THEN /\ fl' = [fl EXCEPT ![p].ret = "EOF"]
            /\ wbuf' = wbuf
            /\ pc' = [pc EXCEPT ![p] = "f_ret"]
       ELSE /\ fl' = [fl EXCEPT ![p].c.fill = Take(wbuf, fl[p].c.len),
                                ![p].n = Min(fl[p].c.len, Len(wbuf))]
            /\ wbuf' = Drop(wbuf, fl[p].c.len)
            /\ pc' = [pc EXCEPT ![p] = "f_upload"]
    /\ UNCHANGED <<via, chunkSize, woffset, wclosed, werr, wmutex, qclosed, wgBuf,
                   wgWrite, wb, cks, pb, volume, uploads, nextFid, handed, accepted,
                   calls, late, flushErr, fclosed, wOff, updates, closes,
                   wctx, rvars, cvars>>

\* UploadResult.FileChunk of the response to the upload of c.
FileChunk(c, outcome) ==
    [fid |-> c.fid, offset |-> c.offset,
     size |-> IF outcome = "ok" THEN Len(Body(c)) ELSE 0]

\* Writer.writeChunk: the upload, and on success Chunks.Add with the entry's hook.
WriteChunk(p, outcome) ==
    /\ uploads' = uploads \cup {[fid |-> fl[p].c.fid, outcome |-> outcome]}
    /\ IF UploadSucceeded(outcome)
       THEN /\ \E cs2 \in Add(cks, <<FileChunk(fl[p].c, outcome)>>) :
                 /\ cks' = cs2
                 /\ pb' \in EntryUpdate(pb, cs2)
            /\ fl' = fl
            /\ pc' = [pc EXCEPT ![p] = "f_adv"]
       ELSE /\ UNCHANGED <<cks, pb>>
            /\ fl' = [fl EXCEPT ![p].ret = outcome]
            /\ pc' = [pc EXCEPT ![p] = "f_ret"]

\* The data node keeps the body of every request it answers 2xx.
Stored(p, outcome) ==
    IF outcome \in {"ok", "nocontent", "decode"}
    THEN [i \in DOMAIN volume \cup {fl[p].c.fid} |->
             IF i = fl[p].c.fid THEN Body(fl[p].c) ELSE volume[i]]
    ELSE volume

FlushUpload(p) ==
    /\ pc[p] = "f_upload"
    /\ \E outcome \in UploadOutcomes :
         /\ WriteChunk(p, outcome)
         /\ volume' = Stored(p, outcome)
    /\ UNCHANGED <<via, chunkSize, wbuf, woffset, wclosed, werr, wmutex, qclosed, wgBuf,
                   wgWrite, wb, nextFid, handed, accepted, calls, late, flushErr,
                   fclosed, wOff, updates, closes,
                   wctx, rvars, cvars>>

\* w.offset += int64(n); the tail branch then returns nil.
FlushAdvance(p) ==
    /\ pc[p] = "f_adv"
    /\ woffset' = woffset + fl[p].n
    /\ pc' = [pc EXCEPT ![p] = IF fl[p].tail THEN "f_ret" ELSE "f_loop"]
    /\ UNCHANGED <<via, chunkSize, wbuf, wclosed, werr, wmutex, qclosed, wgBuf, wgWrite,
                   fl, wb, cks, pb, volume, uploads, nextFid, handed, accepted, calls,
                   late, flushErr, fclosed, wOff, updates, closes,
                   wctx, rvars, cvars>>

\* b := buf.Bytes()
FlushSnapshot(p) ==
    /\ pc[p] = "f_snap"
    /\ fl' = [fl EXCEPT ![p].b = wbuf]
    /\ pc' = [pc EXCEPT ![p] = "f_reset"]
    /\ UNCHANGED <<via, chunkSize, wbuf, woffset, wclosed, werr, wmutex, qclosed, wgBuf,
                   wgWrite, wb, cks, pb, volume, uploads, nextFid, handed, accepted,
                   calls, late, flushErr, fclosed, wOff, updates, closes,
                   wctx, rvars, cvars>>

\* buf.Reset(); buf.Write(b)
FlushReset(p) ==
    /\ pc[p] = "f_reset"
    /\ wbuf' = fl[p].b
    /\ pc' = [pc EXCEPT ![p] = "f_ret"]
    /\ UNCHANGED <<via, chunkSize, woffset, wclosed, werr, wmutex, qclosed, wgBuf,
                   wgWrite, fl, wb, cks, pb, volume, uploads, nextFid, handed, accepted,
                   calls, late, flushErr, fclosed, wOff, updates, closes,
                   wctx, rvars, cvars>>

\* The deferred wgWrite.Done(), and the return to the caller of write.
FlushReturn(p) ==
    /\ pc[p] = "f_ret"
    /\ wgWrite' = wgWrite - 1
    /\ flushErr' = IF flushErr = "nil" THEN fl[p].ret ELSE flushErr
    /\ pc' = [pc EXCEPT ![p] = IF p = "caller" THEN "c_ret"
                               ELSE IF fl[p].ret # "nil" THEN "g_seterr"
                               ELSE "g_recv"]
    /\ UNCHANGED <<via, chunkSize, wbuf, woffset, wclosed, werr, wmutex, qclosed, wgBuf,
                   fl, wb, cks, pb, volume, uploads, nextFid, handed, accepted, calls,
                   late, fclosed, wOff, updates, closes,
                   wctx, rvars, cvars>>

\* ------------------------------------------------------------------ Writer.buffer

\* for b := range queue, met by the send of a Write: the goroutine appends the
\* slice to the buffer (w.buf.Write) and acknowledges it (wgBuf.Done).
BufferReceive ==
    /\ pc["buffer"] = "g_recv"
    /\ pc["caller"] = "w_send"
    /\ wctx = "live"
    /\ wbuf' = wbuf \o wb
    /\ wgBuf' = wgBuf - 1
    /\ pc' = [pc EXCEPT !["caller"] = "w_wait", !["buffer"] = "g_check"]
    /\ UNCHANGED <<via, chunkSize, woffset, wclosed, werr, wmutex, qclosed, wgWrite, fl,
                   wb, cks, pb, volume, uploads, nextFid, handed, accepted, calls,
                   late, flushErr, fclosed, wOff, updates, closes,
                   wctx, rvars, cvars>>

\* for b := range queue on a cancelled context: the slice is received and
\* case <-ctx.Done() returns from the goroutine; nothing is appended and
\* wgBuf.Done is not called.
BufferCancelled ==
    /\ pc["buffer"] = "g_recv"
    /\ pc["caller"] = "w_send"
    /\ wctx = "cancelled"
    /\ pc' = [pc EXCEPT !["caller"] = "w_wait", !["buffer"] = "g_exit"]
    /\ UNCHANGED <<via, chunkSize, wbuf, woffset, wclosed, werr, wmutex, qclosed, wgBuf,
                   wgWrite, fl, wb, cks, pb, volume, uploads, nextFid, handed, accepted,
                   calls, late, flushErr, fclosed, wOff, updates, closes,
                   wctx, rvars, cvars>>

\* The owner of the context the writer was given (WithWriterContext) cancels it.
Cancel ==
    /\ wctx = "live"
    /\ wctx' = "cancelled"
    /\ UNCHANGED <<via, chunkSize, wbuf, woffset, wclosed, werr, wmutex, qclosed, wgBuf,
                   wgWrite, pc, fl, wb, cks, pb, volume, uploads, nextFid, handed,
                   accepted, calls, late, flushErr, fclosed, wOff, updates, closes,
                   rvars, cvars>>

\* if w.buf.Len() >= w.chunkSize: a flush pass, else the next receive.
BufferCheck ==
    /\ pc["buffer"] = "g_check"
    /\ pc' = [pc EXCEPT !["buffer"] = IF Len(wbuf) >= chunkSize THEN "f_add" ELSE "g_recv"]
    /\ UNCHANGED <<via, chunkSize, wbuf, woffset, wclosed, werr, wmutex, qclosed, wgBuf,
                   wgWrite, fl, wb, cks, pb, volume, uploads, nextFid, handed, accepted,
                   calls, late, flushErr, fclosed, wOff, updates, closes,
                   wctx, rvars, cvars>>

\* The range over the queue ends once the queue is closed.
BufferExit ==
    /\ pc["buffer"] = "g_recv"
    /\ qclosed
    /\ pc' = [pc EXCEPT !["buffer"] = "g_exit"]
    /\ UNCHANGED <<via, chunkSize, wbuf, woffset, wclosed, werr, wmutex, qclosed, wgBuf,
                   wgWrite, fl, wb, cks, pb, volume, uploads, nextFid, handed, accepted,
                   calls, late, flushErr, fclosed, wOff, updates, closes,
                   wctx, rvars, cvars>>

\* Writer.setErr after a failed flush pass, under the writer's mutex; the
\* goroutine then returns.
BufferSetErr ==
    /\ pc["buffer"] = "g_seterr"
    /\ wmutex = "free"
    /\ werr' = IF werr = "nil" THEN fl["buffer"].ret ELSE werr
    /\ pc' = [pc EXCEPT !["buffer"] = "g_exit"]
    /\ UNCHANGED <<via, chunkSize, wbuf, woffset, wclosed, wmutex, qclosed, wgBuf,
                   wgWrite, fl, wb, cks, pb, volume, uploads, nextFid, handed, accepted,
                   calls, late, flushErr, fclosed, wOff, updates, closes,
                   wctx, rvars, cvars>>

\* ------------------------------------------------------------------ Writer.Write

\* A call that returned: the operation, the error it returned ("nil" for none),
\* the byte count it returned, and whether it began after a flush pass had failed.
Returned(op, ret, n, l) == [op |-> op, ret |-> ret, n |-> n, late |-> l]

\* Write(b) with len(b) = k > 0, up to the send on the queue: the stored error is
\* returned at once, else wgBuf.Add(1) under the mutex.
WriteCall(k) ==
    /\ pc["caller"] = "idle"
    /\ ~ropen
    /\ handed + k <= MaxBytes
    /\ wmutex = "free"
    /\ handed' = handed + k
    /\ late' = (flushErr # "nil")
    /\ IF werr # "nil"
       THEN /\ calls' = Append(calls, Returned("Write", werr, 0, late'))
            /\ UNCHANGED <<wgBuf, wmutex, wb, pc>>
       ELSE /\ wgBuf' = wgBuf + 1
            /\ wmutex' = "caller"
            /\ wb' = Bytes(handed, k)
            /\ pc' = [pc EXCEPT !["caller"] = "w_send"]
            /\ calls' = calls
    /\ UNCHANGED <<via, chunkSize, wbuf, woffset, wclosed, werr, qclosed, wgWrite, fl,
                   cks, pb, volume, uploads, nextFid, accepted, flushErr, fclosed,
                   wOff, updates, closes,
                   wctx, rvars, cvars>>

\* wgBuf.Wait() returns and Write returns len(b), nil; File.Write adds it to wOff.
WriteReturn ==
    /\ pc["caller"] = "w_wait"
    /\ wgBuf = 0
    /\ wmutex' = "free"
    /\ accepted' = accepted + Len(wb)
    /\ wOff' = IF via = "file" THEN wOff + Len(wb) ELSE wOff
    /\ calls' = Append(calls, Returned("Write", "nil", Len(wb), late))
    /\ pc' = [pc EXCEPT !["caller"] = "idle"]
    /\ UNCHANGED <<via, chunkSize, wbuf, woffset, wclosed, werr, qclosed, wgBuf, wgWrite,
                   fl, wb, cks, pb, volume, uploads, nextFid, handed, late, flushErr,
                   fclosed, updates, closes,
                   wctx, rvars, cvars>>

\* ------------------------------------------------------------------ Writer.Close

\* Close up to wgWrite.Wait(): the mutex, then close(w.queue), which panics on a
\* queue already closed. Through a File, File.Close guards it with File.closed.
CloseCall ==
    /\ pc["caller"] = "idle"
    /\ ~ropen
    /\ closes < MaxCloses
    /\ wmutex = "free"
    /\ closes' = closes + 1
    /\ late' = (flushErr # "nil")
    /\ IF via = "file" /\ fclosed
       THEN /\ calls' = Append(calls, Returned("FileClose", "ErrClosed", 0, late'))
            /\ UNCHANGED <<wmutex, qclosed, pc, fclosed>>
       ELSE /\ fclosed' = (via = "file")
            /\ wmutex' = "caller"
            /\ qclosed' = TRUE
            /\ pc' = [pc EXCEPT !["caller"] = IF qclosed THEN "panic" ELSE "c_wait"]
            /\ calls' = calls
    /\ UNCHANGED <<via, chunkSize, wbuf, woffset, wclosed, werr, wgBuf, wgWrite, fl, wb,
                   cks, pb, volume, uploads, nextFid, handed, accepted, flushErr, wOff,
                   updates,
                   wctx, rvars, cvars>>

\* w.wgWrite.Wait() returns when the counter is zero.
CloseWait ==
    /\ pc["caller"] = "c_wait"
    /\ wgWrite = 0
    /\ pc' = [pc EXCEPT !["caller"] = "c_check"]
    /\ UNCHANGED <<via, chunkSize, wbuf, woffset, wclosed, werr, wmutex, qclosed, wgBuf,
                   wgWrite, fl, wb, cks, pb, volume, uploads, nextFid, handed, accepted,
                   calls, late, flushErr, fclosed, wOff, updates, closes,
                   wctx, rvars, cvars>>

\* The stored error is returned; else the writer is marked closed and, with
\* bytes left in the buffer, runs a flush pass for the tail.
CloseCheck ==
    /\ pc["caller"] = "c_check"
    /\ IF werr # "nil"
       THEN /\ fl' = [fl EXCEPT !["caller"] = [NoFlush EXCEPT !.ret = werr]]
            /\ pc' = [pc EXCEPT !["caller"] = "c_ret"]
            /\ UNCHANGED <<wclosed, werr>>
       ELSE /\ wclosed' = TRUE
            /\ werr' = "closed"
            /\ fl' = [fl EXCEPT !["caller"] = NoFlush]
            /\ pc' = [pc EXCEPT !["caller"] = IF Len(wbuf) > 0 THEN "f_add" ELSE "c_ret"]
    /\ UNCHANGED <<via, chunkSize, wbuf, woffset, wmutex, qclosed, wgBuf, wgWrite, wb,
                   cks, pb, volume, uploads, nextFid, handed, accepted, calls, late,
                   flushErr, fclosed, wOff, updates, closes,
                   wctx, rvars, cvars>>

\* Close returns and the deferred Unlock runs; File.finalize goes on from there.
CloseReturn ==
    /\ pc["caller"] = "c_ret"
    /\ wmutex' = "free"
    /\ calls' = Append(calls, Returned("Close", fl["caller"].ret, 0, late))
    /\ pc' = [pc EXCEPT !["caller"] = IF via = "file" THEN "u_update" ELSE "idle"]
    /\ UNCHANGED <<via, chunkSize, wbuf, woffset, wclosed, werr, qclosed, wgBuf, wgWrite,
                   fl, wb, cks, pb, volume, uploads, nextFid, handed, accepted, late,
                   flushErr, fclosed, wOff, updates, closes,
                   wctx, rvars, cvars>>

\* ------------------------------------------------------------------ File.finalize

\* Filer.Update: a Stat of the entry, which may fail, then the UpdateEntry
\* request carrying the protobuf entry.
FilerUpdate(statOk) ==
    IF statOk /\ pb.hasAttrs THEN Append(updates, pb.chunks) ELSE updates

\* The rest of File.finalize after writer.Close: Update when wOff > 0; File.Close
\* returns the joined errors.
FileFinalize ==
    /\ pc["caller"] = "u_update"
    /\ \E statOk \in BOOLEAN :
         /\ updates' = IF wOff > 0 THEN FilerUpdate(statOk) ELSE updates
         /\ calls' = Append(calls,
               Returned("FileClose",
                        IF fl["caller"].ret # "nil" THEN fl["caller"].ret
                        ELSE IF wOff > 0 /\ ~(statOk /\ pb.hasAttrs) THEN "update"
                        ELSE "nil",
                        0, late))
    /\ pc' = [pc EXCEPT !["caller"] = "idle"]
    /\ UNCHANGED <<via, chunkSize, wbuf, woffset, wclosed, werr, wmutex, qclosed, wgBuf,
                   wgWrite, fl, wb, cks, pb, volume, uploads, nextFid, handed, accepted,
                   late, flushErr, fclosed, wOff, closes,
                   wctx, rvars, cvars>>

\* ------------------------------------------------------------------ Reader

\* Largest destination slice handed to Read.
MaxRead == 3

\* Largest number of Seek calls.
MaxSeeks == 2

NoProducer == [st |-> "none", k |-> 0, next |-> 0]

NoRead == [len |-> 0, n |-> 0, out |-> <<>>, cur |-> 0]

ReaderNone ==
    /\ ropen = FALSE
    /\ rsize = 0
    /\ roffset = 0
    /\ rbuf = <<>>
    /\ rerr = "nil"
    /\ rq = "nil"
    /\ rlist = <<>>
    /\ prod = NoProducer
    /\ pcancelled = FALSE
    /\ pcur = FALSE
    /\ wk = <<>>
    /\ rpc = "idle"
    /\ rcall = NoRead
    /\ rlast = [op |-> "none", n |-> 0, err |-> "nil"]
    /\ rstart = 0
    /\ rdelivered = <<>>
    /\ seeks = 0
    /\ rfault = FALSE
    /\ rclosed = FALSE
    /\ rcloses = 0

\* What stands for the error of a fetch where a body is expected: no body holds -1.
Failed == <<-1>>

\* What stands for a ContentLengthError where a body is expected.
Mismatch == <<-2>>

IsErr(body) == body \in {Failed, Mismatch}

\* How a request to the data node may end: with the stored body, with an error
\* (lookup, transport, status), or with a body one byte short of the stored one.
FetchOutcomes == {"ok", "fail", "short"}

\* The body of the data node's response, as io.CopyBuffer copies it.
Response(c, o) ==
    IF o = "fail" \/ c.fid \notin DOMAIN volume THEN Failed
    ELSE IF o = "short" THEN Take(volume[c.fid], Len(volume[c.fid]) - 1)
    ELSE volume[c.fid]

\* Reader.get without the comparison of the copied length with the chunk's size.
GetUnchecked(c, o) == Response(c, o)

\* Reader.get for chunk c: the body the data node returns, Failed when the
\* request fails, Mismatch when the body's length differs from the chunk's size.
Get(c, o) ==
    IF Response(c, o) = Failed THEN Failed
    ELSE IF Len(Response(c, o)) # c.end - c.start THEN Mismatch
    ELSE Response(c, o)

\* Trim as it would be without the cut at the start offset.
TrimNothing(c, body, off) == body

\* Reader.acquireChunk with a start offset: the body from off on.
Trim(c, body, off) ==
    IF Len(body) > 0 /\ off > 0 THEN SubSeq(body, off - c.start + 1, Len(body)) ELSE body

\* The chunk Reader.init starts from: the first listed one, or for
\* 0 < off <= size one that AtOffset may return.
InitChunks(l, off) ==
    IF off > 0 /\ off <= rsize THEN AtOffset(cks, off) ELSE {l[1]}

\* Reader.init(off) reading the listing l, starting from chunk c, the fetch of
\* the first chunk succeeding or not: the iterator skips c.Position() chunks, the
\* next one is fetched into the buffer from off on, and with chunks left a new
\* queue and producer are started. buf is the buffer init finds. Sets ok.
InitFrom(l, c, off, fetched, buf) ==
    LET idx == c.pos + 1
        body == IF idx <= Len(l) THEN Get(l[idx], fetched) ELSE Failed
    IN  IF IsErr(body)
        THEN /\ rbuf' = buf
             /\ pcancelled' = TRUE
             /\ UNCHANGED <<roffset, rq, rlist, prod, pcur, wk>>
        ELSE /\ rbuf' = buf \o Trim(l[idx], body, off)
             /\ roffset' = off
             /\ IF idx < Len(l)
                THEN /\ rq' = "open"
                     /\ rlist' = l
                     /\ prod' = [st |-> "run", k |-> 0, next |-> idx + 1]
                     /\ pcancelled' = FALSE
                     /\ pcur' = TRUE
                     /\ wk' = [i \in 1..Len(l) |-> "none"]
                ELSE /\ pcancelled' = TRUE
                     /\ pcur' = FALSE
                     /\ UNCHANGED <<rq, rlist, prod, wk>>

\* Whether InitFrom with these choices succeeds.
InitOk(l, c, off, fetched) ==
    c.pos + 1 <= Len(l) /\ ~IsErr(Get(l[c.pos + 1], fetched))

\* NewReader over the Chunk Set as it is now; init(0) when it holds chunks.
\* A failed init leaves no reader.
NewReader ==
    /\ ~ropen
    /\ rsize' = cks.size
    /\ IF cks.m = {}
       THEN /\ ropen' = TRUE
            /\ UNCHANGED <<roffset, rbuf, rq, rlist, prod, pcancelled, pcur, wk, rfault>>
       ELSE \E l \in List(cks), fetched \in FetchOutcomes :
              /\ ropen' = InitOk(l, l[1], 0, fetched)
              /\ rfault' = (rfault \/ ~InitOk(l, l[1], 0, fetched))
              /\ InitFrom(l, l[1], 0, fetched, <<>>)
    /\ rstart' = 0
    /\ rdelivered' = <<>>
    /\ UNCHANGED <<rerr, rpc, rcall, rlast, seeks>>
    /\ UNCHANGED <<wvars, rclosed, rcloses, cvars>>

\* Seek(off, io.SeekStart): for a position other than the current one and not
\* beyond size, the context is cancelled, the buffer reset and init(off) run.
Seek(off) ==
    /\ ropen
    /\ rpc = "idle"
    /\ seeks < MaxSeeks
    /\ seeks' = seeks + 1
    /\ IF off # roffset /\ off <= rsize
       THEN \E l \in List(cks), fetched \in FetchOutcomes :
              IF off > 0 /\ AtOffset(cks, off) = {}
              THEN /\ rbuf' = <<>>
                   /\ pcancelled' = TRUE
                   /\ rlast' = [op |-> "Seek", n |-> 0, err |-> "seek"]
                   /\ UNCHANGED <<roffset, rq, rlist, prod, pcur, wk, rstart, rdelivered,
                                  rfault>>
              ELSE \E c \in InitChunks(l, off) :
                     /\ InitFrom(l, c, off, fetched, <<>>)
                     /\ rfault' = (rfault \/ ~InitOk(l, c, off, fetched))
                     /\ IF InitOk(l, c, off, fetched)
                        THEN /\ rstart' = off
                             /\ rdelivered' = <<>>
                             /\ rlast' = [op |-> "Seek", n |-> off, err |-> "nil"]
                        ELSE /\ rlast' = [op |-> "Seek", n |-> 0, err |-> "seek"]
                             /\ UNCHANGED <<rstart, rdelivered>>
       ELSE /\ rstart' = off
            /\ rdelivered' = <<>>
            /\ rlast' = [op |-> "Seek", n |-> off, err |-> "nil"]
            /\ UNCHANGED <<roffset, rbuf, rq, rlist, prod, pcancelled, pcur, wk, rfault>>
    /\ UNCHANGED <<ropen, rsize, rerr, rpc, rcall>>
    /\ UNCHANGED <<wvars, rclosed, rcloses, cvars>>

\* No error is ever found stored.
NeverHasErr == FALSE

\* if r.err != nil, the first test of Read.
HasErr == rerr # "nil"

\* The end of the file is never found reached.
NeverAtEnd == FALSE

\* if r.offset >= r.size, the second test of Read.
AtEnd == roffset >= rsize

\* Read(b) with len(b) = k > 0, up to the range over the queue: the stored error
\* or EOF at once; else what the buffer holds is copied, and the call goes on to
\* the queue when b is not full and bytes remain.
ReadCall(k) ==
    /\ ropen
    /\ rpc = "idle"
    /\ IF HasErr
       THEN /\ rlast' = [op |-> "Read", n |-> 0, err |-> rerr]
            /\ UNCHANGED <<rbuf, rpc, rcall>>
       ELSE IF AtEnd
       THEN /\ rlast' = [op |-> "Read", n |-> 0, err |-> "EOF"]
            /\ UNCHANGED <<rbuf, rpc, rcall>>
       ELSE LET n == Min(k, Len(rbuf))
            IN  /\ rcall' = [len |-> k, n |-> n, out |-> Take(rbuf, k), cur |-> 0]
                /\ rbuf' = Drop(rbuf, k)
                /\ rpc' = IF n < k /\ n + roffset < rsize THEN "range" ELSE "ret"
                /\ rlast' = rlast
    /\ UNCHANGED <<ropen, rsize, roffset, rerr, rq, rlist, prod, pcancelled, pcur, wk,
                   rstart, rdelivered, seeks, rfault>>
    /\ UNCHANGED <<wvars, rclosed, rcloses, cvars>>

\* for c := range r.queue, met by the producer's send of the next inner channel.
ReadReceive ==
    /\ rpc = "range"
    /\ rq = "open"
    /\ prod.st = "offer"
    /\ rcall' = [rcall EXCEPT !.cur = prod.k]
    /\ prod' = [prod EXCEPT !.st = "run"]
    /\ rpc' = "wait"
    /\ UNCHANGED <<ropen, rsize, roffset, rbuf, rerr, rq, rlist, pcancelled, pcur, wk,
                   rlast, rstart, rdelivered, seeks, rfault>>
    /\ UNCHANGED <<wvars, rclosed, rcloses, cvars>>

\* The range ends on a closed queue.
ReadQueueClosed ==
    /\ rpc = "range"
    /\ rq = "closed"
    /\ rpc' = "ret"
    /\ UNCHANGED <<ropen, rsize, roffset, rbuf, rerr, rq, rlist, prod, pcancelled, pcur,
                   wk, rcall, rlast, rstart, rdelivered, seeks, rfault>>
    /\ UNCHANGED <<wvars, rclosed, rcloses, cvars>>

\* Awaited as it would be if the workers shared one channel: the consumer gets
\* the result of a later fetch that has ended, when there is one.
AnyEnded ==
    IF \E k \in DOMAIN wk : k > rcall.cur /\ wk[k] = "ok"
    THEN CHOOSE k \in DOMAIN wk : k > rcall.cur /\ wk[k] = "ok"
    ELSE rcall.cur

\* The worker whose result rc := <-c receives: the one whose inner channel c the
\* consumer took from the queue.
Awaited == rcall.cur

\* rc := <-c and the rest of the loop body: a failed fetch stores the error and
\* returns it with the bytes copied so far; else the chunk's bytes fill b, and
\* when b is full what is left goes to the buffer and the loop ends.
ReadTake ==
    /\ rpc = "wait"
    /\ wk[Awaited] \in FetchOutcomes \cup {"mismatch"}
    /\ wk' = [wk EXCEPT ![Awaited] = "taken"]
    /\ IF wk[Awaited] \in {"fail", "mismatch"}
       THEN /\ rerr' = IF rerr # "nil" THEN rerr
                       ELSE IF wk[Awaited] = "fail" THEN "fetch" ELSE "length"
            /\ rlast' = [op |-> "Read", n |-> rcall.n, err |-> rerr']
            /\ rdelivered' = rdelivered \o rcall.out
            /\ rpc' = "idle"
            /\ UNCHANGED <<rbuf, rcall>>
       ELSE LET cb == Get(rlist[Awaited], wk[Awaited])
                room == rcall.len - rcall.n
                n2 == rcall.n + Min(room, Len(cb))
            IN  /\ rcall' = [rcall EXCEPT !.n = n2, !.out = rcall.out \o Take(cb, room)]
                /\ rbuf' = IF n2 = rcall.len THEN rbuf \o Drop(cb, room) ELSE rbuf
                /\ rpc' = IF n2 = rcall.len THEN "ret" ELSE "range"
                /\ UNCHANGED <<rerr, rlast, rdelivered>>
    /\ UNCHANGED <<ropen, rsize, roffset, rq, rlist, prod, pcancelled, pcur, rstart,
                   seeks, rfault>>
    /\ UNCHANGED <<wvars, rclosed, rcloses, cvars>>

\* r.offset += n, the context is cancelled at the end of the file, and Read
\* returns n, nil.
ReadReturn ==
    /\ rpc = "ret"
    /\ roffset' = roffset + rcall.n
    /\ pcancelled' = (pcancelled \/ (pcur /\ roffset' >= rsize))
    /\ rlast' = [op |-> "Read", n |-> rcall.n, err |-> "nil"]
    /\ rdelivered' = rdelivered \o rcall.out
    /\ rpc' = "idle"
    /\ UNCHANGED <<ropen, rsize, rbuf, rerr, rq, rlist, prod, pcur, wk, rcall, rstart,
                   seeks, rfault>>
    /\ UNCHANGED <<wvars, rclosed, rcloses, cvars>>

\* Reader.buffer, the producer: with a chunk left, its fetch worker is started
\* (acquireChunk) and its inner channel offered on the queue; else the queue is
\* closed.
ProducerNext ==
    /\ prod.st = "run"
    /\ IF prod.next <= Len(rlist)
       THEN /\ wk' = [wk EXCEPT ![prod.next] = "fetching"]
            /\ prod' = [st |-> "offer", k |-> prod.next, next |-> prod.next + 1]
            /\ rq' = rq
       ELSE /\ prod' = [prod EXCEPT !.st = "done"]
            /\ rq' = "closed"
            /\ wk' = wk
    /\ UNCHANGED <<ropen, rsize, roffset, rbuf, rerr, rlist, pcancelled, pcur, rpc, rcall,
                   rlast, rstart, rdelivered, seeks, rfault>>
    /\ UNCHANGED <<wvars, rclosed, rcloses, cvars>>

\* case <-ctx.Done(): the producer returns and the deferred close(queue) runs.
ProducerCancelled ==
    /\ prod.st = "offer"
    /\ pcancelled
    /\ prod' = [prod EXCEPT !.st = "done"]
    /\ rq' = "closed"
    /\ UNCHANGED <<ropen, rsize, roffset, rbuf, rerr, rlist, pcancelled, pcur, wk, rpc,
                   rcall, rlast, rstart, rdelivered, seeks, rfault>>
    /\ UNCHANGED <<wvars, rclosed, rcloses, cvars>>

\* The fetch worker of chunk k of the listing ends its fetch: its result holds
\* the error of get, or the body get returned (the response it was copied from).
WorkerFetch(k) ==
    /\ k \in DOMAIN wk
    /\ wk[k] = "fetching"
    /\ \E fetched \in FetchOutcomes :
         /\ wk' = [wk EXCEPT ![k] = IF Get(rlist[k], fetched) = Failed THEN "fail"
                                     ELSE IF Get(rlist[k], fetched) = Mismatch
                                     THEN "mismatch"
                                     ELSE fetched]
         /\ rfault' = (rfault \/ IsErr(Get(rlist[k], fetched)))
    /\ UNCHANGED <<ropen, rsize, roffset, rbuf, rerr, rq, rlist, prod, pcancelled, pcur,
                   rpc, rcall, rlast, rstart, rdelivered, seeks>>
    /\ UNCHANGED <<wvars, rclosed, rcloses, cvars>>

\* Reader.Close between two calls of the consumer: a stored error is returned at
\* once, before anything else; else the first call marks the reader closed and
\* cancels its context, and a later one returns "already closed".
ReaderClose ==
    /\ ropen
    /\ rpc = "idle"
    /\ rcloses < MaxCloses
    /\ rcloses' = rcloses + 1
    /\ IF rerr # "nil"
       THEN /\ rlast' = [op |-> "Close", n |-> 0, err |-> rerr]
            /\ UNCHANGED <<rclosed, pcancelled>>
       ELSE IF ~rclosed
       THEN /\ rclosed' = TRUE
            /\ pcancelled' = (pcancelled \/ pcur)
            /\ rlast' = [op |-> "Close", n |-> 0, err |-> "nil"]
       ELSE /\ rlast' = [op |-> "Close", n |-> 0, err |-> "closed"]
            /\ UNCHANGED <<rclosed, pcancelled>>
    /\ UNCHANGED <<ropen, rsize, roffset, rbuf, rerr, rq, rlist, prod, pcur, wk, rpc,
                   rcall, rstart, rdelivered, seeks, rfault>>
    /\ UNCHANGED <<wvars, cvars>>

\* ------------------------------------------------------------------ specification

vars == <<wvars, rvars, cvars>>

Init == WriterInit /\ ReaderNone /\ cop = NoOp /\ XNone

\* The steps of the Writer, its goroutine and the caller driving it.
NextWriter ==
    \/ \E p \in Procs : FlushEnter(p)
    \/ \E p \in Procs : FlushLoop(p)
    \/ \E p \in Procs : FlushTail(p)
    \/ \E p \in Procs : FlushAcquire(p)
    \/ \E p \in Procs : FlushRead(p)
    \/ \E p \in Procs : FlushUpload(p)
    \/ \E p \in Procs : FlushAdvance(p)
    \/ \E p \in Procs : FlushSnapshot(p)
    \/ \E p \in Procs : FlushReset(p)
    \/ \E p \in Procs : FlushReturn(p)
    \/ BufferReceive
    \/ BufferCheck
    \/ BufferExit
    \/ BufferSetErr
    \/ \E k \in 1..MaxBytes : WriteCall(k)
    \/ WriteReturn
    \/ CloseCall
    \/ CloseWait
    \/ CloseCheck
    \/ CloseReturn

Next ==
    \/ NextWriter
    \/ FileFinalize

Spec == Init /\ [][Next]_vars

\* ------------------------------------------------------------------ the Writer under cancellation

\* The Writer, driven by the caller itself, under a context that may be cancelled.
NextCancel ==
    \/ NextWriter
    \/ Cancel
    \/ BufferCancelled

InitCancel == Init /\ via = "writer"

SpecCancel == InitCancel /\ [][NextCancel]_vars

\* ------------------------------------------------------------------ the Reader alone

\* Largest number of chunks of a stored file.
MaxChunks == 3

\* The chunk descriptors of a file whose chunks have the sizes szs, in offset
\* order: chunk i is stored under file id i.
RECURSIVE Descriptors(_)
Descriptors(szs) ==
    IF szs = <<>> THEN <<>>
    ELSE LET front == Descriptors(SubSeq(szs, 1, Len(szs) - 1))
             off == IF front = <<>> THEN 0
                    ELSE front[Len(front)].offset + front[Len(front)].size
         IN  Append(front, [fid |-> Len(szs), offset |-> off, size |-> szs[Len(szs)]])

\* The Chunk Sets a Writer leaves that added the chunks fcs one after the other.
RECURSIVE Written(_)
Written(fcs) ==
    IF fcs = <<>> THEN {EmptyChunks}
    ELSE UNION {Add(cs, <<fcs[Len(fcs)]>>) : cs \in Written(SubSeq(fcs, 1, Len(fcs) - 1))}

\* What the data nodes hold for these chunks: byte o+1 at offset o of the file.
StoredFile(fcs) == [i \in 1..Len(fcs) |-> Bytes(fcs[i].offset, fcs[i].size)]

ChunkSizes == UNION {[1..n -> 1..MaxChunkSize] : n \in 0..MaxChunks}

\* A stored file of contiguous chunks, and no reader yet.
InitReader ==
    /\ \E szs \in ChunkSizes :
         /\ cks \in Written(Descriptors(szs))
         /\ volume = StoredFile(Descriptors(szs))
    /\ pb = NewFilePB
    /\ via = "writer"
    /\ chunkSize = MaxChunkSize
    /\ WriterFresh
    /\ ReaderNone
    /\ cop = NoOp /\ XNone

NextReader ==
    \/ NewReader
    \/ \E off \in 0..(rsize + 1) : Seek(off)
    \/ \E k \in 1..MaxRead : ReadCall(k)
    \/ ReadReceive
    \/ ReadQueueClosed
    \/ ReadTake
    \/ ReadReturn
    \/ ProducerNext
    \/ ProducerCancelled
    \/ \E k \in 1..MaxChunks : WorkerFetch(k)

SpecReader == InitReader /\ [][NextReader]_vars

\* The Reader with its Close.
NextReaderClose ==
    \/ NextReader
    \/ ReaderClose

SpecReaderClose == InitReader /\ [][NextReaderClose]_vars

\* ------------------------------------------------------------------ the round trip

\* A Reader is opened over the Chunk Set once the caller's Close of the Writer
\* has returned nil.
OpenWritten ==
    /\ pc["caller"] = "idle"
    /\ \E i \in DOMAIN calls : calls[i].op = "Close" /\ calls[i].ret = "nil"
    /\ NewReader

\* A Writer over an empty Chunk Set, driven by the caller itself.
InitRoundTrip == Init /\ via = "writer"

\* The Writer as in Spec, then a Reader read from offset 0 on.
NextRoundTrip ==
    \/ NextWriter
    \/ OpenWritten
    \/ \E k \in 1..MaxRead : ReadCall(k)
    \/ ReadReceive
    \/ ReadQueueClosed
    \/ ReadTake
    \/ ReadReturn
    \/ ProducerNext
    \/ ProducerCancelled
    \/ \E k \in 1..MaxChunks : WorkerFetch(k)

SpecRoundTrip == InitRoundTrip /\ [][NextRoundTrip]_vars

\* ------------------------------------------------------------------ the Entry alone

\* Largest file_size attribute of an entry the filer answers with.
MaxFileSize == 3

\* The protobuf entries the filer may answer a lookup with. The file_size
\* attribute and the chunk list are separate fields of the message, and the
\* client takes both as they come; a directory has no chunks and size 0.
ServerEntries ==
    {[isDir |-> FALSE, hasAttrs |-> TRUE, fileSize |-> n, chunks |-> Descriptors(szs)] :
         n \in 0..MaxFileSize, szs \in ChunkSizes}
    \cup {[isDir |-> TRUE, hasAttrs |-> TRUE, fileSize |-> 0, chunks |-> <<>>]}

\* newEntry: the Chunk Set is filled from the protobuf entry's chunks by
\* WithEntry, and only then is the entry's hook installed by WithOnAdd, so the
\* hook does not run for these chunks.
InitEntry ==
    /\ pb \in ServerEntries
    /\ cks \in Add(EmptyChunks, pb.chunks)
    /\ via = "writer"
    /\ chunkSize = MaxChunkSize
    /\ volume = <<>>
    /\ WriterFresh
    /\ ReaderNone
    /\ cop = NoOp /\ XNone

\* Chunks.Add of one chunk on the entry's Chunk Set, with the entry's hook.
EntryAdd(fc) ==
    /\ Cardinality(cks.m) < MaxChunks
    /\ \E cs2 \in Add(cks, <<fc>>) :
         /\ cks' = cs2
         /\ pb' \in EntryUpdate(pb, cs2)
    /\ UNCHANGED <<via, chunkSize, wbuf, woffset, wclosed, werr, wmutex, qclosed, wgBuf,
                   wgWrite, pc, fl, wb, volume, uploads, nextFid, handed, accepted,
                   calls, late, flushErr, fclosed, wOff, updates, closes, wctx, rvars, cvars>>

\* Entry.Truncate.
Truncate ==
    /\ IF ~pb.isDir /\ pb.hasAttrs
       THEN /\ pb' = [pb EXCEPT !.fileSize = 0, !.chunks = <<>>]
            /\ cks' = Clear(cks)
       ELSE UNCHANGED <<pb, cks>>
    /\ UNCHANGED <<via, chunkSize, wbuf, woffset, wclosed, werr, wmutex, qclosed, wgBuf,
                   wgWrite, pc, fl, wb, volume, uploads, nextFid, handed, accepted,
                   calls, late, flushErr, fclosed, wOff, updates, closes, wctx, rvars, cvars>>

NextEntry ==
    \/ \E o \in 0..cks.size, n \in 0..MaxChunkSize :
         EntryAdd([fid |-> Cardinality(cks.m) + 1, offset |-> o, size |-> n])
    \/ Truncate

SpecEntry == InitEntry /\ [][NextEntry]_vars

\* ------------------------------------------------------------------ the Entry's hook

\* The protobuf entries newEntry accepts: it does not look at the attributes
\* (Filer.NewEntry does, setRoot does not), so a file without them is one.
AnyEntries ==
    ServerEntries
    \cup {[isDir |-> FALSE, hasAttrs |-> FALSE, fileSize |-> 0, chunks |-> Descriptors(szs)] :
             szs \in ChunkSizes}

InitHook ==
    /\ pb \in AnyEntries
    /\ cks \in Add(EmptyChunks, pb.chunks)
    /\ via = "writer"
    /\ chunkSize = MaxChunkSize
    /\ volume = <<>>
    /\ WriterFresh
    /\ ReaderNone
    /\ cop = NoOp /\ XNone

\* Chunks.Add of one chunk on the entry's Chunk Set: the chunk is inserted, the
\* hook Entry.update runs, and Add returns the count with the hook's error.
HookedAdd(fc) ==
    /\ Cardinality(cks.m) < MaxChunks
    /\ \E cs2 \in Add(cks, <<fc>>) :
         /\ cks' = cs2
         /\ pb' \in EntryUpdate(pb, cs2)
         /\ cop' = [NoOp EXCEPT !.op = "Add", !.fcs = <<fc>>,
                                !.n = Cardinality(cs2.m) - Cardinality(cks.m),
                                !.err = UpdateErr(pb, cs2)]
    /\ UNCHANGED <<via, chunkSize, wbuf, woffset, wclosed, werr, wmutex, qclosed, wgBuf,
                   wgWrite, pc, fl, wb, volume, uploads, nextFid, handed, accepted,
                   calls, late, flushErr, fclosed, wOff, updates, closes, wctx, rvars,
                   xvars>>

NextHook ==
    \E o \in 0..cks.size, n \in 0..MaxChunkSize :
        HookedAdd([fid |-> Cardinality(cks.m) + 1, offset |-> o, size |-> n])

SpecHook == InitHook /\ [][NextHook]_vars

\* ------------------------------------------------------------------ Cluster.Truncate

\* Number of volume servers of the cluster.
MaxVolumes == 2

Volumes == 1..MaxVolumes

\* The file ids of the chunks of a Chunk Set (Entry.FileIDs).
FileIDs(cs) == {c.fid : c \in cs.m}

\* The orders in which the results of the lookups of the file ids F may arrive
\* on the channel the eight workers of mapVolumes share.
Arrivals(F) ==
    {a \in [1..Cardinality(F) -> F] : \A f \in F : \E i \in 1..Cardinality(F) : a[i] = f}

\* The loop of mapVolumes over the results a, the lookup of the file ids in bad
\* failing, loc giving the volumes of each file id: a volume's list is created
\* with the first file id found on it; the list appended to for a later one is
\* not stored back. A failed lookup ends the loop, and mapVolumes returns what
\* it has with a nil error.
RECURSIVE MapVolumes(_, _, _, _)
MapVolumes(a, bad, loc, vm) ==
    IF a = <<>> \/ Head(a) \in bad THEN vm
    ELSE MapVolumes(Tail(a), bad, loc,
                    [v \in Volumes |->
                        IF v \in loc[Head(a)] /\ vm[v] = {} THEN {Head(a)} ELSE vm[v]])

\* Cluster.Truncate of the entry Stat answers with: a directory is returned as
\* it is; for a file the volumes are mapped, each mapped volume is sent one
\* delete request for its list (a failing request ends the call), and then the
\* entry is truncated and sent to the filer with Update.
ClusterTruncate ==
    /\ ctr.pc = "none"
    /\ IF pb.isDir
       THEN /\ ctr' = [pc |-> "done", F |-> {}, loc |-> <<>>, bad |-> {}, sent |-> {},
                       truncated |-> FALSE, updated |-> FALSE, ret |-> "nil"]
            /\ UNCHANGED <<pb, cks>>
       ELSE \E loc \in [FileIDs(cks) -> SUBSET Volumes \ {{}}],
               a \in Arrivals(FileIDs(cks)),
               bad \in {{}} \cup {{f} : f \in FileIDs(cks)},
               failing \in Volumes \cup {0} :
              LET vm == MapVolumes(a, bad, loc, [v \in Volumes |-> {}])
                  mapped == {v \in Volumes : vm[v] # {}}
                  delErr == failing \in mapped
              IN  /\ \E before \in SUBSET (mapped \ {failing}) :
                        ctr' = [pc |-> "done", F |-> FileIDs(cks), loc |-> loc, bad |-> bad,
                                sent |-> {[vol |-> v, fids |-> vm[v]] :
                                             v \in IF delErr THEN before \cup {failing}
                                                   ELSE mapped},
                                truncated |-> ~delErr, updated |-> ~delErr,
                                ret |-> IF delErr THEN "delete" ELSE "nil"]
                  /\ IF delErr
                     THEN UNCHANGED <<pb, cks>>
                     ELSE /\ pb' = [pb EXCEPT !.fileSize = 0, !.chunks = <<>>]
                          /\ cks' = Clear(cks)
    /\ UNCHANGED <<via, chunkSize, wbuf, woffset, wclosed, werr, wmutex, qclosed, wgBuf,
                   wgWrite, pc, fl, wb, volume, uploads, nextFid, handed, accepted,
                   calls, late, flushErr, fclosed, wOff, updates, closes, wctx, rvars,
                   cop, etr, wat>>

\* The entry the filer answers Stat with, and one Cluster.Truncate of it.
SpecCluster == InitEntry /\ [][ClusterTruncate]_vars

\* ------------------------------------------------------------------ the watcher

\* Largest timestamp of a notification of the subscription stream; timestamps
\* grow along the stream, so it bounds the notifications received as well.
MaxTs == 2

\* The paths of the entries the notifications are about.
PX == "/buckets/a/x"
PY == "/buckets/a/y"
PD == "/buckets/a/d"
PT == "/buckets/temp/x"
PTP == "/buckets/temp/x.part"
PU == "/buckets/a/.uploads/x"
PS == "/topics/x"

WatchedPaths == {PX, PY, PD, PT, PTP, PU, PS}

\* A side of a notification without an entry (or without a directory):
\* watcher.newEntry answers ErrNotExist, which prepareEvents takes as nil.
Absent == "absent"

\* Path.IsFileFragment, Path.IsTempResource and Path.IsSystemResource on the
\* paths above (the name ends in .part; the path holds .uploads; the path
\* begins with /topics).
IsFileFragment(p) == p \in {PTP}
IsTempResource(p) == p \in {PU}
IsSystemResource(p) == p \in {PS}

\* Entry.IsDir of the entry at a path: /buckets/a/d is the directory.
EntryIsDir(p) == p = PD

\* The namespace the catalog finds for a path.
Namespace(p) == IF p \in {PT, PTP} THEN "temp" ELSE "a"

\* The namespace_excludes option the watcher is built with.
Excludes == {{}, {"temp"}}

\* The step of the preparation of a notification that fails, if one does:
\* Filer.NewEntry, Catalog.Find or the IPFS Add.
NoFault == [side |-> "none", step |-> "none"]
Faults == {NoFault} \cup [side : {"old", "new"}, step : {"resolve", "find", "add"}]

Present(note, side) == IF side = "old" THEN note.old # Absent ELSE note.new # Absent

\* What the subscription stream can deliver: the timestamp, whether the
\* directory is the path prefix or the root, the old and the new entry, the
\* failing step and the side whose file is no longer there when it is opened
\* for hashing; one cause of failure at most is drawn for a notification.
Notifications ==
    {note \in [ts : 1..MaxTs, skip : BOOLEAN, old : WatchedPaths \cup {Absent},
               new : WatchedPaths \cup {Absent}, fault : Faults,
               gone : {{}, {"old"}, {"new"}}] :
        /\ note.old # Absent \/ note.new # Absent
        /\ note.fault # NoFault => (Present(note, note.fault.side) /\ note.gone = {})
        /\ note.skip => (note.fault = NoFault /\ note.gone = {})
        /\ "old" \in note.gone => (note.old # Absent /\ ~EntryIsDir(note.old))
        /\ "new" \in note.gone => (note.new # Absent /\ ~EntryIsDir(note.new))}

NoNote == [ts |-> 0, skip |-> FALSE, old |-> Absent, new |-> Absent, fault |-> NoFault,
           gone |-> {}]

StepFails(note, side, step) == note.fault = [side |-> side, step |-> step]

Err == [err |-> TRUE, events |-> <<>>]
Ok(events) == [err |-> FALSE, events |-> events]

\* prepareEvent for the entry at p on a side of the notification: a fragment
\* needs no further processing; a file is added to IPFS and opened for hashing.
PrepareEvent(note, side, p, type) ==
    IF IsFileFragment(p)
    THEN Ok(<<[type |-> type, path |-> p, ns |-> Namespace(p), fragment |-> TRUE]>>)
    ELSE IF ~EntryIsDir(p) /\ (StepFails(note, side, "add") \/ side \in note.gone) THEN Err
    ELSE Ok(<<[type |-> type, path |-> p, ns |-> Namespace(p), fragment |-> FALSE]>>)

\* The test of a namespace against the namespace_excludes option.
NeverExcluded(ns, excl) == FALSE

Excluded(ns, excl) == ns \in excl

\* The old side of prepareEvents: a deletion for the old entry when the new
\* entry is there and is a directory or has another path or name.
OldSide(note, excl) ==
    IF note.old = Absent \/ IsTempResource(note.old) \/ IsSystemResource(note.old)
    THEN Ok(<<>>)
    ELSE IF StepFails(note, "old", "find") THEN Err
    ELSE IF Excluded(Namespace(note.old), excl) THEN Ok(<<>>)
    ELSE IF note.new # Absent /\ (EntryIsDir(note.new) \/ note.old # note.new)
    THEN PrepareEvent(note, "old", note.old, "deletion")
    ELSE Ok(<<>>)

\* The new side of prepareEvents: a change when the old entry is a file of the
\* same path, a creation otherwise.
NewSide(note, excl) ==
    IF note.new = Absent \/ IsTempResource(note.new) \/ IsSystemResource(note.new)
    THEN Ok(<<>>)
    ELSE IF StepFails(note, "new", "find") THEN Err
    ELSE IF Excluded(Namespace(note.new), excl) THEN Ok(<<>>)
    ELSE PrepareEvent(note, "new", note.new,
                      IF note.old # Absent /\ ~EntryIsDir(note.old) /\ note.old = note.new
                      THEN "change" ELSE "creation")

\* The events of the two sides, the old side's first; an error on either side
\* is returned with no events.
BothPartial(o, n) == Ok(o.events \o n.events)

Both(o, n) == IF o.err \/ n.err THEN Err ELSE Ok(o.events \o n.events)

PrepareEvents(note, excl) ==
    IF StepFails(note, "old", "resolve") \/ StepFails(note, "new", "resolve") THEN Err
    ELSE Both(OldSide(note, excl), NewSide(note, excl))

\* The since-timestamp metadataClient.Recv stores in the subscription request
\* after a notification of timestamp T.
SinceNext(T) == T + 1

SinceNs(T) == T

\* The events of the n-th notification.
Tag(events, n) ==
    [i \in 1..Len(events) |->
        [n |-> n, type |-> events[i].type, path |-> events[i].path, ns |-> events[i].ns,
         fragment |-> events[i].fragment]]

\* What is left to send after the first of the pending events is sent.
KeepPending(pending) == pending

Rest(pending) == Tail(pending)

\* A return of the goroutine of Run: the deferred close of the event channel.
ReturnNoClose(w, why) == [w EXCEPT !.pc = "closed", !.pending = <<>>, !.why = why]

Return(w, why) == [w EXCEPT !.pc = "closed", !.pending = <<>>, !.why = why, !.closed = @ + 1]

\* The watcher when Run has made the event channel and started its goroutine.
Watcher0(excl) ==
    [pc |-> "recv", excl |-> excl, ctx |-> "live", n |-> 0, cursor |-> 0, note |-> NoNote,
     pending |-> <<>>, emitted |-> <<>>, closed |-> 0, failed |-> {}, why |-> "none",
     root |-> "/", wclosed |-> FALSE, lclosed |-> FALSE, conn |-> "open", rets |-> <<>>]

\* The file system the watcher is built over: its root directory, nothing open.
WatcherHost ==
    /\ pb = [isDir |-> TRUE, hasAttrs |-> TRUE, fileSize |-> 0, chunks |-> <<>>]
    /\ cks = EmptyChunks
    /\ via = "writer"
    /\ chunkSize = MaxChunkSize
    /\ volume = <<>>
    /\ WriterFresh
    /\ ReaderNone
    /\ cop = NoOp /\ etr = NoTruncate /\ ctr = NoCluster

InitWatcher ==
    /\ WatcherHost
    /\ wat \in {Watcher0(excl) : excl \in Excludes}

\* One turn of the loop of Run up to its first send: a notification is received
\* and the cursor stored; a notification for the path prefix or the root is
\* skipped, one whose preparation fails is logged, and the loop goes on.
WatchRecv ==
    /\ wat.pc = "recv"
    /\ wat.note.ts < MaxTs
    /\ \E note \in Notifications :
          /\ note.ts > wat.note.ts
          /\ LET n == wat.n + 1
                 r == IF note.skip THEN Ok(<<>>) ELSE PrepareEvents(note, wat.excl)
                 evts == Tag(r.events, n)
             IN  wat' = [wat EXCEPT !.cursor = SinceNs(note.ts), !.n = n, !.note = note,
                                    !.pending = evts,
                                    !.pc = IF evts = <<>> THEN "recv" ELSE "send",
                                    !.failed = IF r.err THEN @ \cup {n} ELSE @]
    /\ UNCHANGED <<wvars, rvars, cop, etr, ctr>>

\* The stream ends, or the receive fails: the goroutine returns.
WatchRecvFails ==
    /\ wat.pc = "recv"
    /\ \E why \in {"eof", "error"} : wat' = Return(wat, why)
    /\ UNCHANGED <<wvars, rvars, cop, etr, ctr>>

\* The consumer takes the first pending event from the event channel.
WatchSend ==
    /\ wat.pc = "send"
    /\ LET left == Rest(wat.pending)
       IN  wat' = [wat EXCEPT !.emitted = Append(@, Head(wat.pending)), !.pending = left,
                              !.pc = IF left = <<>> THEN "recv" ELSE "send"]
    /\ UNCHANGED <<wvars, rvars, cop, etr, ctr>>

\* The context is done while an event waits to be sent: the goroutine returns.
WatchSendCancelled ==
    /\ wat.pc = "send"
    /\ wat.ctx = "cancelled"
    /\ wat' = Return(wat, "cancelled")
    /\ UNCHANGED <<wvars, rvars, cop, etr, ctr>>

\* The caller cancels the context given to Run.
WatchCancel ==
    /\ wat.pc # "none"
    /\ wat.ctx = "live"
    /\ wat' = [wat EXCEPT !.ctx = "cancelled"]
    /\ UNCHANGED <<wvars, rvars, cop, etr, ctr>>

NextWatcher ==
    \/ WatchRecv
    \/ WatchRecvFails
    \/ WatchSend
    \/ WatchSendCancelled
    \/ WatchCancel

SpecWatcher == InitWatcher /\ [][NextWatcher]_vars

\* The name of the root entry of the file system the watcher is built over: the
\* base name of the filer's buckets directory.
RootNames == {"/", "buckets"}

\* Lettuce.Close on the watcher's file system: nothing is closed when the name
\* of its entry is not the path separator; else the cluster is closed once,
\* which closes the filer's connection, and closed again for the result.
LettuceClose(w) ==
    IF w.root # "/" THEN [w EXCEPT !.rets = Append(@, "nil")]
    ELSE IF ~w.lclosed
    THEN [w EXCEPT !.lclosed = TRUE, !.conn = "closed", !.rets = Append(@, "nil")]
    ELSE [w EXCEPT !.rets = Append(@, "nil")]

\* watcher.Close: the first call closes the file system and takes ErrClosed
\* from it as success; a later call returns ErrClosed.
WatcherClose ==
    /\ wat.pc # "none"
    /\ Len(wat.rets) < MaxCloses
    /\ wat' = IF ~wat.wclosed
              THEN LettuceClose([wat EXCEPT !.wclosed = TRUE])
              ELSE [wat EXCEPT !.rets = Append(@, "ErrClosed")]
    /\ UNCHANGED <<wvars, rvars, cop, etr, ctr>>

\* The watcher over a file system of either root name, nothing excluded.
InitWatcherClose ==
    /\ WatcherHost
    /\ wat \in {[Watcher0({}) EXCEPT !.root = r] : r \in RootNames}

NextWatcherClose ==
    \/ NextWatcher
    \/ WatcherClose

SpecWatcherClose == InitWatcherClose /\ [][NextWatcherClose]_vars

\* ------------------------------------------------------------------ Entry.Truncate, step by step

\* Entry.Truncate takes the entry's mutex and tests the protobuf entry.
TruncateBegin ==
    /\ etr.pc = "idle"
    /\ etr' = [etr EXCEPT !.pc = IF ~pb.isDir /\ pb.hasAttrs THEN "t_size" ELSE "done"]
    /\ UNCHANGED <<pb, cks>>
    /\ UNCHANGED <<via, chunkSize, wbuf, woffset, wclosed, werr, wmutex, qclosed, wgBuf,
                   wgWrite, pc, fl, wb, volume, uploads, nextFid, handed, accepted,
                   calls, late, flushErr, fclosed, wOff, updates, closes, wctx, rvars,
                   cop, ctr, wat>>

\* e.pbEntry.GetAttributes().FileSize = 0.
TruncateSize ==
    /\ etr.pc = "t_size"
    /\ pb' = [pb EXCEPT !.fileSize = 0]
    /\ etr' = [etr EXCEPT !.pc = "t_chunks"]
    /\ UNCHANGED cks
    /\ UNCHANGED <<via, chunkSize, wbuf, woffset, wclosed, werr, wmutex, qclosed, wgBuf,
                   wgWrite, pc, fl, wb, volume, uploads, nextFid, handed, accepted,
                   calls, late, flushErr, fclosed, wOff, updates, closes, wctx, rvars,
                   cop, ctr, wat>>

\* e.pbEntry.Chunks = e.pbEntry.Chunks[:0].
TruncateChunks ==
    /\ etr.pc = "t_chunks"
    /\ pb' = [pb EXCEPT !.chunks = <<>>]
    /\ etr' = [etr EXCEPT !.pc = "t_clear"]
    /\ UNCHANGED cks
    /\ UNCHANGED <<via, chunkSize, wbuf, woffset, wclosed, werr, wmutex, qclosed, wgBuf,
                   wgWrite, pc, fl, wb, volume, uploads, nextFid, handed, accepted,
                   calls, late, flushErr, fclosed, wOff, updates, closes, wctx, rvars,
                   cop, ctr, wat>>

\* e.chunks.Clear(), after which Truncate returns and the mutex is released.
TruncateClear ==
    /\ etr.pc = "t_clear"
    /\ cks' = Clear(cks)
    /\ etr' = [etr EXCEPT !.pc = "done"]
    /\ UNCHANGED pb
    /\ UNCHANGED <<via, chunkSize, wbuf, woffset, wclosed, werr, wmutex, qclosed, wgBuf,
                   wgWrite, pc, fl, wb, volume, uploads, nextFid, handed, accepted,
                   calls, late, flushErr, fclosed, wOff, updates, closes, wctx, rvars,
                   cop, ctr, wat>>

\* Another goroutine calls Entry.Size, which takes no lock.
ReadSize ==
    /\ Len(etr.seen) = 0
    /\ etr' = [etr EXCEPT !.seen = <<[v |-> EntrySize(pb), pc |-> etr.pc]>>]
    /\ UNCHANGED <<pb, cks>>
    /\ UNCHANGED <<via, chunkSize, wbuf, woffset, wclosed, werr, wmutex, qclosed, wgBuf,
                   wgWrite, pc, fl, wb, volume, uploads, nextFid, handed, accepted,
                   calls, late, flushErr, fclosed, wOff, updates, closes, wctx, rvars,
                   cop, ctr, wat>>

\* It then calls Entry.Chunks().Len(), which takes no lock either.
ReadLen ==
    /\ Len(etr.seen) = 1
    /\ etr' = [etr EXCEPT !.seen = Append(etr.seen, [v |-> ChunksLen(cks), pc |-> etr.pc])]
    /\ UNCHANGED <<pb, cks>>
    /\ UNCHANGED <<via, chunkSize, wbuf, woffset, wclosed, werr, wmutex, qclosed, wgBuf,
                   wgWrite, pc, fl, wb, volume, uploads, nextFid, handed, accepted,
                   calls, late, flushErr, fclosed, wOff, updates, closes, wctx, rvars,
                   cop, ctr, wat>>

NextTruncate ==
    \/ TruncateBegin
    \/ TruncateSize
    \/ TruncateChunks
    \/ TruncateClear
    \/ ReadSize
    \/ ReadLen

\* An entry as the filer client builds it, one Truncate and one reader.
SpecTruncate == InitEntry /\ [][NextTruncate]_vars

\* ------------------------------------------------------------------ Chunks.Add against Entry.Truncate

\* Both mutexes free, no Add and no Truncate begun.
NoLocks == [pc |-> "idle", seen |-> <<>>, add |-> "idle", emu |-> "free", cmu |-> "free"]

InitLocks ==
    /\ pb \in ServerEntries
    /\ cks \in Add(EmptyChunks, pb.chunks)
    /\ via = "writer"
    /\ chunkSize = MaxChunkSize
    /\ volume = <<>>
    /\ WriterFresh
    /\ ReaderNone
    /\ cop = NoOp /\ etr = NoLocks /\ ctr = NoCluster /\ wat = NoWatcher

\* Chunks.Add locks the set's mutex and inserts the chunk.
AddLocked(fc) ==
    /\ etr.add = "idle"
    /\ etr.cmu = "free"
    /\ Cardinality(cks.m) < MaxChunks
    /\ cks' \in Add(cks, <<fc>>)
    /\ etr' = [etr EXCEPT !.add = "a_hook", !.cmu = "add"]
    /\ UNCHANGED pb
    /\ UNCHANGED <<via, chunkSize, wbuf, woffset, wclosed, werr, wmutex, qclosed, wgBuf,
                   wgWrite, pc, fl, wb, volume, uploads, nextFid, handed, accepted,
                   calls, late, flushErr, fclosed, wOff, updates, closes, wctx, rvars,
                   cop, ctr, wat>>

\* The hook, Entry.update, locks the entry's mutex, refreshes the protobuf
\* entry and unlocks; Add returns and unlocks the set's mutex.
AddHookLocked ==
    /\ etr.add = "a_hook"
    /\ etr.emu = "free"
    /\ pb' \in EntryUpdate(pb, cks)
    /\ etr' = [etr EXCEPT !.add = "done", !.cmu = "free"]
    /\ UNCHANGED cks
    /\ UNCHANGED <<via, chunkSize, wbuf, woffset, wclosed, werr, wmutex, qclosed, wgBuf,
                   wgWrite, pc, fl, wb, volume, uploads, nextFid, handed, accepted,
                   calls, late, flushErr, fclosed, wOff, updates, closes, wctx, rvars,
                   cop, ctr, wat>>

\* Entry.Truncate locks the entry's mutex and, for a file with attributes,
\* zeroes the size and the chunk list of the protobuf entry; else it returns.
TruncateLocked ==
    /\ etr.pc = "idle"
    /\ etr.emu = "free"
    /\ IF ~pb.isDir /\ pb.hasAttrs
       THEN /\ pb' = [pb EXCEPT !.fileSize = 0, !.chunks = <<>>]
            /\ etr' = [etr EXCEPT !.pc = "t_clear", !.emu = "truncate"]
       ELSE /\ pb' = pb
            /\ etr' = [etr EXCEPT !.pc = "done"]
    /\ UNCHANGED cks
    /\ UNCHANGED <<via, chunkSize, wbuf, woffset, wclosed, werr, wmutex, qclosed, wgBuf,
                   wgWrite, pc, fl, wb, volume, uploads, nextFid, handed, accepted,
                   calls, late, flushErr, fclosed, wOff, updates, closes, wctx, rvars,
                   cop, ctr, wat>>

\* Chunks.Clear locks the set's mutex, empties the set and unlocks; Truncate
\* returns and unlocks the entry's mutex.
TruncateClearLocked ==
    /\ etr.pc = "t_clear"
    /\ etr.cmu = "free"
    /\ cks' = Clear(cks)
    /\ etr' = [etr EXCEPT !.pc = "done", !.emu = "free"]
    /\ UNCHANGED pb
    /\ UNCHANGED <<via, chunkSize, wbuf, woffset, wclosed, werr, wmutex, qclosed, wgBuf,
                   wgWrite, pc, fl, wb, volume, uploads, nextFid, handed, accepted,
                   calls, late, flushErr, fclosed, wOff, updates, closes, wctx, rvars,
                   cop, ctr, wat>>

NextLocks ==
    \/ \E o \in 0..cks.size, n \in 1..MaxChunkSize :
          AddLocked([fid |-> Cardinality(cks.m) + 1, offset |-> o, size |-> n])
    \/ AddHookLocked
    \/ TruncateLocked
    \/ TruncateClearLocked

\* An entry as the filer client builds it, one Add on its Chunk Set in one
\* goroutine and one Truncate in another.
SpecLocks == InitLocks /\ [][NextLocks]_vars

\* ------------------------------------------------------------------ the Chunk Set alone

\* Largest offset of a chunk handed to Add.
MaxOffset == 2

\* Largest number of chunks handed to one Add call.
MaxAdd == 1

\* Number of file ids the chunks handed to Add are stored under.
MaxFid == 2

\* The protobuf chunks a caller may hand to Add.
FileChunks ==
    [fid : 1..MaxFid, offset : 0..MaxOffset, size : 0..MaxChunkSize]

\* The argument lists of one Add call.
AddArgs == UNION {[1..k -> FileChunks] : k \in 1..MaxAdd}

\* NewChunks: an empty Chunk Set with no hook, the caller's own.
InitChunks0 ==
    /\ cks = EmptyChunks
    /\ pb = NewFilePB
    /\ via = "writer"
    /\ chunkSize = MaxChunkSize
    /\ volume = <<>>
    /\ WriterFresh
    /\ ReaderNone
    /\ cop = NoOp /\ XNone

\* Chunks.Add on the caller's set: the chunks of fcs are inserted unless their
\* Offset is a key of the map already; the call returns the number inserted.
ChunksAdd(fcs) ==
    /\ \E cs2 \in Add(cks, fcs) :
         /\ Cardinality(cs2.m) <= MaxChunks
         /\ cks' = cs2
         /\ cop' = [NoOp EXCEPT !.op = "Add", !.fcs = fcs,
                                !.n = Cardinality(cs2.m) - Cardinality(cks.m)]
    /\ UNCHANGED <<via, chunkSize, wbuf, woffset, wclosed, werr, wmutex, qclosed, wgBuf,
                   wgWrite, pc, fl, wb, pb, volume, uploads, nextFid, handed, accepted,
                   calls, late, flushErr, fclosed, wOff, updates, closes, wctx, rvars,
                   xvars>>

\* Chunks.Clear on the caller's set.
ChunksClear ==
    /\ cks' = Clear(cks)
    /\ cop' = [NoOp EXCEPT !.op = "Clear"]
    /\ UNCHANGED <<via, chunkSize, wbuf, woffset, wclosed, werr, wmutex, qclosed, wgBuf,
                   wgWrite, pc, fl, wb, pb, volume, uploads, nextFid, handed, accepted,
                   calls, late, flushErr, fclosed, wOff, updates, closes, wctx, rvars,
                   xvars>>

\* Chunks.AtOffset(p) on the caller's set: the chunk find meets first, or an
\* error (no chunk) when p is outside 0..size or no Offset contains p.
ChunksAtOffset(p) ==
    /\ IF AtOffset(cks, p) = {}
       THEN cop' = [NoOp EXCEPT !.op = "AtOffset", !.p = p]
       ELSE \E c \in AtOffset(cks, p) :
              cop' = [NoOp EXCEPT !.op = "AtOffset", !.p = p, !.found = <<c>>]
    /\ UNCHANGED <<wvars, rvars, xvars>>

\* Chunks.List on the caller's set.
ChunksList ==
    /\ \E l \in List(cks) : cop' = [NoOp EXCEPT !.op = "List", !.list = l]
    /\ UNCHANGED <<wvars, rvars, xvars>>

NextChunks ==
    \/ \E fcs \in AddArgs : ChunksAdd(fcs)
    \/ ChunksClear
    \/ \E p \in 0..(MaxOffset + MaxChunkSize + 1) : ChunksAtOffset(p)
    \/ ChunksList

SpecChunks == InitChunks0 /\ [][NextChunks]_vars

\* Largest size of a chunk handed to Add where the sizes are what matters.
MaxSize == 3

\* Chunks that hold bytes, of every size up to MaxSize.
SizedChunks == [fid : {1}, offset : 0..MaxOffset, size : 1..MaxSize]

\* Adds of one chunk that holds bytes, on the caller's set.
SpecSizes == InitChunks0 /\ [][\E fc \in SizedChunks : ChunksAdd(<<fc>>)]_vars

\* ------------------------------------------------------------------ claims: Reader

\* The contents of the stored file of SpecReader from offset p on, k bytes.
FileFrom(p, k) == Bytes(p, k)

\* C3. Seek then Read: after a Seek (or the constructor) that returned a position
\* p in [0, size], and with no fetch failing, the bytes the Reads have delivered
\* are exactly the bytes of the file from p on, in order and never beyond size; a
\* Read that returns EOF has been preceded by all of them; and at p = size the
\* Read returns (0, EOF).
C3_SeekThenRead ==
    (ropen /\ ~rfault /\ rstart <= rsize) =>
        /\ rstart + Len(rdelivered) <= rsize
        /\ rdelivered = FileFrom(rstart, Len(rdelivered))
        /\ (rlast.op = "Read" /\ rlast.err = "EOF") => rstart + Len(rdelivered) = rsize
        /\ (rlast.op = "Read" /\ rstart = rsize) => (rlast.n = 0 /\ rlast.err = "EOF")

\* A Seek onto the boundary between two chunks was followed by Reads that
\* delivered the rest of the file and then EOF.
C3_Witness ==
    /\ ropen /\ ~rfault /\ seeks > 0
    /\ rstart > 0 /\ rstart < rsize
    /\ \E c \in cks.m : c.end = rstart
    /\ rlast.op = "Read" /\ rlast.err = "EOF"
    /\ rdelivered = FileFrom(rstart, rsize - rstart)

\* The bytes delivered since the last Seek, with those the Read in progress has
\* already copied into its destination.
Delivering == rdelivered \o (IF rpc = "idle" THEN <<>> ELSE rcall.out)

\* C4. Reader ordering: in every interleaving of the producer, the fetch workers
\* and the consumer, and with no fetch failing, the consumer takes the chunks in
\* the order of the listing (a chunk is taken only after every chunk started
\* before it), whatever the order in which the fetches end, and the bytes
\* delivered ascend by one: none is delivered twice, none is skipped.
C4_ReaderOrdering ==
    (ropen /\ ~rfault) =>
        /\ \A j, k \in DOMAIN wk :
             (j < k /\ wk[j] # "none" /\ wk[k] = "taken") => wk[j] = "taken"
        /\ (rpc = "wait") =>
             \A j \in DOMAIN wk : (j < rcall.cur /\ wk[j] # "none") => wk[j] = "taken"
        /\ \A i \in 1..(Len(Delivering) - 1) : Delivering[i + 1] = Delivering[i] + 1

\* The fetch of a later chunk has ended while the consumer still waits for the
\* fetch of an earlier one, bytes having been delivered already.
C4_Witness ==
    /\ ropen /\ ~rfault
    /\ rpc = "wait"
    /\ wk[rcall.cur] = "fetching"
    /\ rcall.cur + 1 \in DOMAIN wk
    /\ wk[rcall.cur + 1] = "ok"
    /\ Len(Delivering) > 0

\* The prefetch producer of the queue has not returned.
InFlight == prod.st \in {"run", "offer"}

\* C16. Reader.Close, in any state of the reader, also after a Read has stored an
\* error: when the first call has returned, no prefetch is in flight under a
\* context that is not cancelled, and the second call returns "already closed".
C16_ReaderClose ==
    (rlast.op = "Close") =>
        /\ rcloses = 1 => (InFlight => pcancelled)
        /\ rcloses = 2 => rlast.err = "closed"

C18_ShortReadThenEOF ==
    /\ [](((rlast.op = "Read" /\ rlast.err = "EOF") => rlast.n = 0)
          /\ ((ropen /\ rpc = "idle" /\ rlast.op = "Read" /\ rlast.n = 0
                    /\ rerr = "nil" /\ roffset >= rsize) => rlast.err = "EOF"))
    /\ [][(rpc = "ret" /\ rpc' = "idle" /\ ~rfault /\ rcall.len > rsize - roffset) =>
             (rlast' = [op |-> "Read", n |-> rsize - roffset, err |-> "nil"]
                 /\ roffset' = rsize)]_vars

\* C18 (as stated). A Read that returns fewer bytes than it was given room
\* for, having reached the end of the file, returns them together with EOF.
C18_ShortReadWithEOF ==
    (ropen /\ ~rfault /\ rpc = "idle" /\ rlast.op = "Read" /\ rlast.n > 0
         /\ rlast.n < rcall.len /\ roffset = rsize) => rlast.err = "EOF"

\* A Read returned (0, EOF) right after a Read that had returned fewer bytes
\* than it was given room for.
C18_Witness ==
    /\ ropen /\ ~rfault /\ rpc = "idle"
    /\ rlast = [op |-> "Read", n |-> 0, err |-> "EOF"]
    /\ rcall.n > 0 /\ rcall.n < rcall.len
    /\ Len(rdelivered) >= rcall.n
    /\ rstart + Len(rdelivered) = rsize

\* C19. A fetched body whose length differs from the chunk's size is never
\* delivered: the result of a fetch never holds such a body (the fetch yields
\* the content-length error), and the Read that takes the result of that fetch
\* returns the error, having copied nothing of the body.
C19_MismatchNeverDelivered ==
    /\ [](\A k \in DOMAIN wk :
            wk[k] \in {"ok", "short"} =>
                Len(Get(rlist[k], wk[k])) = rlist[k].end - rlist[k].start)
    /\ [][(rpc = "wait" /\ wk[rcall.cur] = "mismatch" /\ rpc' # "wait") =>
             /\ rpc' = "idle"
             /\ rerr' = "length"
             /\ rlast' = [op |-> "Read", n |-> rcall.n, err |-> "length"]
             /\ rdelivered' = rdelivered \o rcall.out
             /\ rbuf' = rbuf]_vars

\* A Read has failed with the content-length error of a fetch.
C19_Witness ==
    /\ rlast.op = "Read" /\ rlast.err = "length"
    /\ \E k \in DOMAIN wk : wk[k] = "taken" /\ rcall.cur = k

\* ------------------------------------------------------------------ claims: Writer

\* Where a flush pass (Writer.write) stands once it has been entered.
FlushLabels ==
    {"f_loop", "f_tail", "f_acq", "f_read", "f_upload", "f_adv", "f_snap", "f_reset",
     "f_ret"}

\* p is inside a flush pass.
InFlush(p) == pc[p] \in FlushLabels

\* Some call of the kind op has returned ret.
HasReturned(op, ret) == \E i \in DOMAIN calls : calls[i].op = op /\ calls[i].ret = ret

\* Every upload attempted so far was answered 2xx with the size received.
AllUploadsOk == \A u \in uploads : u.outcome = "ok"

\* The chunks of the Chunk Set that cover the byte at offset o of the file.
Covering(o) == {c \in cks.m : c.start <= o /\ o < c.end}

\* C5. Writer.Close drains before it flushes the tail: the caller and the buffer
\* goroutine are never inside a flush pass at the same time; while Close is past
\* wgWrite.Wait() the goroutine neither runs nor is about to run a flush pass; and
\* once Close has returned nil, every upload having succeeded, each byte accepted
\* by Write is covered by exactly one chunk of the Chunk Set.
C5_CloseDrains ==
    /\ ~(InFlush("caller") /\ InFlush("buffer"))
    /\ (pc["caller"] \in {"c_check", "c_ret"} \/ InFlush("caller")) =>
           ~(InFlush("buffer") \/ pc["buffer"] = "f_add")
    /\ (via = "writer" /\ HasReturned("Close", "nil") /\ AllUploadsOk
            /\ pc["buffer"] \in {"g_recv", "g_exit"}) =>
           \A o \in 0..(accepted - 1) : Cardinality(Covering(o)) = 1

\* C5: Close has returned nil, every upload succeeded, the goroutine is at rest,
\* and an accepted byte is covered by no chunk.
C5_ByteLost ==
    ~(/\ via = "writer" /\ HasReturned("Close", "nil") /\ AllUploadsOk
      /\ pc["buffer"] \in {"g_recv", "g_exit"}
      /\ \E o \in 0..(accepted - 1) : Covering(o) = {})

\* C6. Writer.Close is idempotent after the first call: the caller driving the
\* Writer itself, a Close begun after a Close that returned nil does not panic,
\* returns the "already closed" error, and leaves the uploads as they were.
C6_SecondClose ==
    (via = "writer") =>
        /\ pc["caller"] # "panic"
        /\ \A i, j \in DOMAIN calls :
             (i < j /\ calls[i].op = "Close" /\ calls[i].ret = "nil"
                 /\ calls[j].op = "Close") => calls[j].ret = "closed"

\* C7. Writer first-error stickiness: a Write or Close begun after a flush pass
\* failed with error E returns E; in particular no such Close returns nil.
C7_FirstErrorSticks ==
    \A i \in DOMAIN calls :
        (calls[i].late /\ calls[i].op \in {"Write", "Close"}) => calls[i].ret = flushErr

\* C7, its last part alone: no Close begun after a flush pass failed returns nil.
C7_CloseNilAfterFailure ==
    \A i \in DOMAIN calls : (calls[i].late /\ calls[i].op = "Close") => calls[i].ret # "nil"

\* The number of chunks of n bytes cut at every s bytes.
ChunkCount(n, s) == (n + s - 1) \div s

\* C2. Chunking: the caller driving the Writer itself, once Close has returned nil
\* after Writes that accepted N bytes in all, every upload answered with the size
\* it received, the Chunk Set holds for each i < ceil(N/S) one chunk of position
\* i, offset i*S and size S (N mod S for the last one when that is not zero) and
\* no other chunk, and position and offset ascend in the order of the uploads.
C2_Chunking ==
    (via = "writer" /\ HasReturned("Close", "nil") /\ AllUploadsOk
         /\ pc["buffer"] \in {"g_recv", "g_exit"}) =>
        /\ Cardinality(cks.m) = ChunkCount(accepted, chunkSize)
        /\ \A i \in 0..(ChunkCount(accepted, chunkSize) - 1) :
             \E c \in cks.m : /\ c.pos = i
                              /\ c.start = i * chunkSize
                              /\ c.end = Min((i + 1) * chunkSize, accepted)
        /\ \A c, d \in cks.m : c.fid < d.fid => (c.pos < d.pos /\ c.start < d.start)
        /\ cks.size = accepted

\* C8. A chunk whose upload failed is never added to the Chunk Set: every chunk
\* of the Chunk Set, and of the entry's chunk list, is stored under the file id
\* of an upload that was answered 2xx with a response that was parsed, and the
\* file id of no failed upload is in the Chunk Set.
C8_FailedNeverAdded ==
    /\ \A c \in cks.m :
         \E u \in uploads : u.fid = c.fid /\ u.outcome \in {"ok", "nocontent"}
    /\ \A i \in DOMAIN pb.chunks :
         \E u \in uploads : u.fid = pb.chunks[i].fid /\ u.outcome \in {"ok", "nocontent"}
    /\ \A u \in uploads :
         u.outcome \in {"status", "transport", "decode"} =>
             \A c \in cks.m : c.fid # u.fid

\* An upload has failed with a non-2xx status after another chunk had been
\* added, and the Chunk Set holds only the chunk that was uploaded.
C8_Witness ==
    /\ \E u \in uploads : u.outcome = "status"
    /\ \E u \in uploads : u.outcome = "transport"
    /\ Cardinality(cks.m) = 1
    /\ \E c \in cks.m : [fid |-> c.fid, outcome |-> "ok"] \in uploads

\* The caller is blocked in a call for good: it waits in wgBuf.Wait(), holding
\* the mutex, for an acknowledgement only the goroutine gives, and the goroutine
\* has returned.
BlockedForever ==
    /\ pc["caller"] = "w_wait"
    /\ wgBuf > 0
    /\ pc["buffer"] = "g_exit"

\* C20. Write honours cancellation: once the writer's context is cancelled no
\* caller is left blocked for good on the writer's queue, acknowledgement or
\* mutex; every Write in progress and every later one returns, and so does a
\* later Close.
C20_WriteHonoursCancel ==
    (wctx = "cancelled") => ~BlockedForever

\* ------------------------------------------------------------------ claims: File

\* C9. File.Close: through a File, at most one Update is ever sent and none when
\* nothing was written; once a File.Close has returned nil on a file with bytes
\* written, exactly one Update has been sent, no flush pass of the writer is
\* still running or due, and the chunk list the Update carried is the entry's
\* chunk list; and a File.Close after another one returns ErrClosed.
C9_FileClose ==
    (via = "file") =>
        /\ Len(updates) <= 1
        /\ (wOff = 0) => updates = <<>>
        /\ (HasReturned("FileClose", "nil") /\ wOff > 0) =>
               /\ Len(updates) = 1
               /\ pc["buffer"] \in {"g_recv", "g_exit"} => updates[1] = pb.chunks
        /\ \A i, j \in DOMAIN calls :
               (i < j /\ calls[i].op = "FileClose" /\ calls[j].op = "FileClose") =>
                   calls[j].ret = "ErrClosed"

\* ------------------------------------------------------------------ claims: round trip

\* C1. Round trip: the caller driving the Writer itself over an empty Chunk Set,
\* every Write and the Close having returned nil, every upload having succeeded
\* and no fetch having failed, a Reader opened on the Chunk Set and read from
\* offset 0 until EOF has delivered exactly the bytes handed to the Writes.
C1_RoundTrip ==
    (/\ via = "writer" /\ ropen /\ ~rfault /\ AllUploadsOk
     /\ \A i \in DOMAIN calls : calls[i].ret = "nil"
     /\ rlast.op = "Read" /\ rlast.err = "EOF") =>
        rdelivered = Bytes(0, handed)

\* ------------------------------------------------------------------ claims: Entry

\* C10. Entry size invariant: between operations the size a file Entry reports
\* equals the size of its Chunk Set, whether the entry was just built from the
\* filer's answer or changed by Add or Truncate; a directory reports 0.
C10_EntrySize ==
    IF pb.isDir THEN EntrySize(pb) = 0 ELSE EntrySize(pb) = cks.size

\* ------------------------------------------------------------------ claims: Chunk Set

\* The chunks of cs have positive sizes and tile the bytes 0 .. size-1.
Contiguous(cs) ==
    /\ cs.m # {}
    /\ \A c \in cs.m : c.start < c.end /\ c.end <= cs.size
    /\ \A q \in 0..(cs.size - 1) :
         Cardinality({c \in cs.m : c.start <= q /\ q < c.end}) = 1

\* C11. AtOffset uses half-open intervals: on a Chunk Set of contiguous chunks,
\* for every p in [0, size), AtOffset(p) returns the chunk c with
\* c.start <= p < c.end; at a boundary between two chunks it returns the later
\* chunk, never the earlier one.
C11_AtOffsetHalfOpen ==
    (cop.op = "AtOffset" /\ Contiguous(cks) /\ cop.p \in 0..(cks.size - 1)) =>
        /\ cop.found # <<>>
        /\ cop.found[1].start <= cop.p
        /\ cop.p < cop.found[1].end

\* C12. The Chunk Set is non-overlapping and position-sorted: after any Adds,
\* of two chunks the one with the smaller position ends at or before the start
\* of the other.
C12_PositionSorted ==
    \A c1, c2 \in cks.m : c1.pos < c2.pos => c1.end <= c2.start

\* Every chunk of the argument list has a chunk of cs with its start offset.
SameStart(cs, fcs) ==
    \A i \in 1..Len(fcs) : \E c \in cs.m : c.start = fcs[i].offset

\* Every chunk of the argument list has a chunk of cs with its start offset and
\* its size, under whatever file id.
SameKey(cs, fcs) ==
    \A i \in 1..Len(fcs) :
        \E c \in cs.m : c.start = fcs[i].offset /\ c.end = fcs[i].offset + fcs[i].size

\* C13 (as the code has it). Add is idempotent on a duplicate Offset, first
\* insertion wins: adding a chunk whose offset and size both equal those of a
\* chunk already in the set, whatever its file id, inserts nothing and leaves
\* the existing chunk, the set's length and the set's size unchanged; so
\* Add(c) twice inserts one chunk.
C13_AddDuplicateKey ==
    [][(cop'.op = "Add" /\ SameKey(cks, cop'.fcs)) => (cop'.n = 0 /\ cks' = cks)]_vars

\* C13 (as stated). Adding a chunk whose offset equals the offset of a chunk
\* already in the set, whatever its size or file id, inserts nothing and
\* leaves the set unchanged.
C13_AddDuplicateOffset ==
    [][(cop'.op = "Add" /\ SameStart(cks, cop'.fcs)) => (cop'.n = 0 /\ cks' = cks)]_vars

\* An Add of a chunk found in the set under another file id inserted nothing.
C13_Witness ==
    /\ cop.op = "Add"
    /\ cop.n = 0
    /\ \E c \in cks.m :
         /\ c.start = cop.fcs[1].offset
         /\ c.end = cop.fcs[1].offset + cop.fcs[1].size
         /\ c.fid # cop.fcs[1].fid

\* The sum of the sizes of the chunks of S.
RECURSIVE SumSizes(_)
SumSizes(S) ==
    IF S = {} THEN 0
    ELSE LET c == CHOOSE x \in S : TRUE
         IN  (c.end - c.start) + SumSizes(S \ {c})

\* C14. After any Adds and Clears Size() is the sum of the sizes of the chunks
\* in the set and Len() is their number; after Clear the set is empty and size,
\* min chunk size and max chunk size are 0.
C14_SizeIsSum ==
    /\ ChunksSize(cks) = SumSizes(cks.m)
    /\ ChunksLen(cks) = Cardinality({<<c.start, c.end>> : c \in cks.m})
    /\ cop.op = "Clear" =>
         cks.m = {} /\ ChunksSize(cks) = 0 /\ cks.min = 0 /\ cks.max = 0

\* An Add has inserted the second of two chunks, of sizes 1 and 2.
C14_Witness ==
    /\ cop.op = "Add"
    /\ cop.n = 1
    /\ ChunksLen(cks) = 2
    /\ ChunksSize(cks) = 3

\* C15. A chunk of size 0 is listed by List and is never the result of
\* AtOffset, for any p, its own offset included.
C15_ZeroLengthHidden ==
    /\ (cop.op = "List") => \A c \in cks.m : \E i \in 1..Len(cop.list) : cop.list[i] = c
    /\ (cop.op = "AtOffset" /\ cop.found # <<>>) => cop.found[1].start < cop.found[1].end

\* ------------------------------------------------------------------ claims: Entry.Truncate

\* C21. After Entry.Truncate has returned on a file entry its Chunk Set is empty
\* with size 0, its size attribute is 0 and its chunk list is empty; on a
\* directory nothing has changed; and no intermediate state is observable: a
\* reader that finds the size Truncate has written finds no chunk afterwards.
C21_TruncateAtomic ==
    /\ (etr.pc = "done" /\ ~pb.isDir) =>
          (cks = EmptyChunks /\ EntrySize(pb) = 0 /\ pb.chunks = <<>>)
    /\ (etr.pc = "done" /\ pb.isDir) =>
          (cks = EmptyChunks /\ pb.fileSize = 0 /\ pb.chunks = <<>>)
    /\ (Len(etr.seen) = 2 /\ etr.seen[1].pc \in {"t_chunks", "t_clear", "done"}) =>
          etr.seen[2].v = 0

\* ------------------------------------------------------------------ claims: Entry's hook

\* C22. The hook the Entry installs on its Chunk Set fails with InvalidState,
\* which Add returns, whenever the entry is a file without attributes; and Add
\* never returns success on a file entry whose size attribute it has left
\* different from the size of the Chunk Set.
C22_HookInvalidState ==
    (cop.op = "Add" /\ ~pb.isDir) =>
        /\ ~pb.hasAttrs => cop.err = "InvalidState"
        /\ cop.err = "nil" => (pb.hasAttrs /\ pb.fileSize = cks.size)

\* ------------------------------------------------------------------ claims: Cluster.Truncate

\* C23. Cluster.Truncate removes all data of the file: with every lookup and
\* every delete request succeeding, each volume holding file ids of the file's
\* chunks has been sent a delete request covering every one of them located on
\* it, the entry is truncated and updated only after that, and a directory is
\* left as it was.
C23_TruncateDeletesAll ==
    (ctr.pc = "done" /\ ctr.bad = {} /\ ctr.ret = "nil") =>
        /\ \A f \in ctr.F : \A v \in ctr.loc[f] :
              \E q \in ctr.sent : q.vol = v /\ f \in q.fids
        /\ pb.isDir => (~ctr.truncated /\ ~ctr.updated /\ ctr.sent = {})


\* ------------------------------------------------------------------ claims: the watcher

\* The events of the n-th notification the consumer has taken.
EventsOf(n) == SelectSeq(wat.emitted, LAMBDA e : e.n = n)

\* The events sent or waiting to be sent.
Emitting == {wat.emitted[i] : i \in 1..Len(wat.emitted)} \cup
            {wat.pending[i] : i \in 1..Len(wat.pending)}

\* A path the watcher does not filter out.
Plain(p) == p # Absent /\ ~IsTempResource(p) /\ ~IsSystemResource(p)

\* The last notification received was not skipped and the loop is through
\* with it: its events, if any, have all been taken.
Settled == wat.pc = "recv" /\ wat.n > 0 /\ ~wat.note.skip

\* A step of the preparation of the notification fails.
PreparationFails(note, excl) ==
    /\ ~note.skip
    /\ \/ StepFails(note, "old", "resolve")
       \/ StepFails(note, "new", "resolve")
       \/ OldSide(note, excl).err
       \/ NewSide(note, excl).err

\* C24. For a notification of the deletion of a watched file (old entry there,
\* new entry absent, path neither temporary nor system, namespace not excluded,
\* no step failing) exactly one event is emitted, a deletion whose path is the
\* deleted path.
C24_DeletionEvent ==
    (/\ Settled
     /\ Plain(wat.note.old) /\ ~EntryIsDir(wat.note.old)
     /\ wat.note.new = Absent
     /\ ~Excluded(Namespace(wat.note.old), wat.excl)
     /\ wat.note.fault = NoFault)
        => /\ Len(EventsOf(wat.n)) = 1
           /\ EventsOf(wat.n)[1].type = "deletion"
           /\ EventsOf(wat.n)[1].path = wat.note.old

\* C25. For a notification of a file moved, the old path no longer there, (old
\* and new entry both there with different paths, neither filtered nor excluded,
\* no step failing) a deletion for the old entry and then a creation for the new
\* entry are emitted.
C25_RenamePair ==
    (/\ Settled
     /\ Plain(wat.note.old) /\ ~EntryIsDir(wat.note.old) /\ ~IsFileFragment(wat.note.old)
     /\ Plain(wat.note.new) /\ ~EntryIsDir(wat.note.new)
     /\ wat.note.old # wat.note.new
     /\ ~Excluded(Namespace(wat.note.old), wat.excl)
     /\ ~Excluded(Namespace(wat.note.new), wat.excl)
     /\ wat.note.fault = NoFault /\ wat.note.gone = {"old"})
        => /\ Len(EventsOf(wat.n)) = 2
           /\ EventsOf(wat.n)[1].type = "deletion"
           /\ EventsOf(wat.n)[1].path = wat.note.old
           /\ EventsOf(wat.n)[2].type = "creation"
           /\ EventsOf(wat.n)[2].path = wat.note.new

\* C26. No event is sent, or waits to be sent, for an entry whose catalog
\* namespace is in namespace_excludes, whichever side of the notification the
\* entry is on and whether or not it is a fragment.
C26_NamespaceExcluded ==
    wat.pc \in {"recv", "send", "closed"} =>
        \A e \in Emitting : Namespace(e.path) \notin wat.excl

\* The namespace temp is excluded, and a notification whose old entry is a file
\* of another namespace and whose new entry is a fragment of temp has been gone
\* through: the deletion alone was emitted.
C26_Witness ==
    /\ Settled
    /\ wat.excl = {"temp"}
    /\ wat.note.old = PX /\ wat.note.new = PTP
    /\ Len(EventsOf(wat.n)) = 1

\* C27. When a step of the preparation of a notification fails, no event of
\* that notification is sent or waits to be sent, and the loop is back at its
\* receive with the channel open; the notification after a failed one has all
\* the events of its two sides emitted.
C27_NoPartialEmission ==
    /\ [](((wat.pc \in {"recv", "send", "closed"}) /\ wat.n > 0
            /\ PreparationFails(wat.note, wat.excl))
              => \A e \in Emitting : e.n # wat.n)
    /\ []((Settled /\ (wat.n - 1) \in wat.failed /\ ~PreparationFails(wat.note, wat.excl))
              => EventsOf(wat.n) = Tag(OldSide(wat.note, wat.excl).events
                                         \o NewSide(wat.note, wat.excl).events, wat.n))
    /\ [][(wat.pc = "recv" /\ wat'.n = wat.n + 1 /\ PreparationFails(wat'.note, wat'.excl))
              => (wat'.pc = "recv" /\ wat'.closed = 0 /\ wat'.emitted = wat.emitted)]_vars

\* The preparation of the first notification failed, the loop went on, and the
\* two events of the second notification have been emitted.
C27_Witness ==
    /\ Settled
    /\ wat.n = 2 /\ 1 \in wat.failed
    /\ Len(EventsOf(2)) = 2

\* C28. The events are emitted in the order their notifications were received,
\* none of them twice; what waits to be sent is of the last notification.
C28_ReceiveOrder ==
    wat.pc \in {"recv", "send", "closed"} =>
        /\ \A i, j \in 1..Len(wat.emitted) :
              i < j => (wat.emitted[i].n <= wat.emitted[j].n
                        /\ wat.emitted[i] # wat.emitted[j])
        /\ \A i \in 1..Len(wat.emitted), j \in 1..Len(wat.pending) :
              wat.emitted[i].n <= wat.pending[j].n /\ wat.emitted[i] # wat.pending[j]

\* Two events of the first notification and one of the second have been taken.
C28_Witness ==
    /\ wat.pc \in {"recv", "send", "closed"}
    /\ Len(EventsOf(1)) = 2
    /\ Len(EventsOf(2)) >= 1

\* C29, as the code has it. After a notification of timestamp T is received the
\* since-timestamp of the subscription request is T, and a receive that fails
\* leaves it as it was.
C29_CursorIsT ==
    /\ []((wat.pc \in {"recv", "send", "closed"} /\ wat.n > 0) => wat.cursor = wat.note.ts)
    /\ [][(wat.pc = "recv" /\ wat'.pc = "closed") => wat'.cursor = wat.cursor]_vars

\* C29, as the specification has it: the since-timestamp is T + 1.
C29_CursorIsTPlusOne ==
    /\ []((wat.pc \in {"recv", "send", "closed"} /\ wat.n > 0)
              => wat.cursor = wat.note.ts + 1)
    /\ [][(wat.pc = "recv" /\ wat'.pc = "closed") => wat'.cursor = wat.cursor]_vars

\* Two notifications were received, the second of timestamp 2, and the receive
\* after them failed.
C29_Witness ==
    /\ wat.pc = "closed" /\ wat.why = "error"
    /\ wat.n = 2 /\ wat.note.ts = 2

\* C30. The event channel is closed once, when the goroutine returns, which it
\* does at the end of the stream, on a receive error, or when the context is
\* done while an event waits to be sent; nothing is sent after that.
C30_ClosedOnce ==
    /\ []((wat.pc \in {"recv", "send"}) => wat.closed = 0)
    /\ [](wat.pc = "closed" => (wat.closed = 1 /\ wat.why \in {"eof", "error", "cancelled"}
                                 /\ wat.pending = <<>>))
    /\ [][wat.pc = "closed"
              => (wat'.pc = "closed" /\ wat'.closed = wat.closed
                  /\ wat'.emitted = wat.emitted)]_vars

\* The context was cancelled with the second of two events waiting to be sent,
\* and the goroutine returned.
C30_Witness ==
    /\ wat.pc = "closed" /\ wat.why = "cancelled"
    /\ Len(wat.emitted) = 1
    /\ wat.ctx = "cancelled"


\* C31. After watcher.Close has returned, the subscription stream is cancelled
\* (the connection it runs on is closed), and a second watcher.Close returns
\* ErrClosed.
C31_CloseStops ==
    wat.pc \in {"recv", "send", "closed"} =>
        /\ Len(wat.rets) >= 1 => wat.conn = "closed"
        /\ Len(wat.rets) >= 2 => wat.rets[2] = "ErrClosed"


\* ------------------------------------------------------------------ claims: fetch workers

\* The fetch worker of chunk k holds its result and nobody is left to receive
\* it: the producer returned on its cancelled context while offering the
\* worker's inner channel, which the consumer never took from the queue.
Stranded(k) ==
    /\ wk[k] \in FetchOutcomes \cup {"mismatch"}
    /\ prod.st = "done" /\ prod.k = k
    /\ ~(rpc = "wait" /\ rcall.cur = k)

\* C32. Every fetch worker delivers its one result and terminates, also when
\* the reader is closed before the consumer receives the result: no worker is
\* left holding a result on a channel nobody receives from.
C32_WorkersTerminate == \A k \in DOMAIN wk : ~Stranded(k)


\* ------------------------------------------------------------------ claims: positions and sizes

\* The largest position of a chunk of a set that holds chunks.
MaxPosition(cs) == CHOOSE q \in {c.pos : c \in cs.m} : \A c \in cs.m : c.pos <= q

\* C33. A chunk Add inserts gets a position one greater than the largest
\* position of the set before the call (0 for an empty set), and so the
\* positions of the chunks of the set are pairwise distinct.
C33_PositionsDistinct ==
    /\ [](\A c1, c2 \in cks.m : c1 # c2 => c1.pos # c2.pos)
    /\ [][\A c \in cks'.m \ cks.m :
             c.pos = IF cks.m = {} THEN 0 ELSE MaxPosition(cks) + 1]_vars


\* The sizes of the chunks of a set.
Sizes(cs) == {c.end - c.start : c \in cs.m}

\* C40. After any Adds of chunks that hold bytes, ChunkSizeMin is the smallest
\* and ChunkSizeMax the largest size of a chunk of the set.
C40_MinMaxSizes ==
    (cks.m # {} /\ 0 \notin Sizes(cks)) =>
        /\ cks.min \in Sizes(cks) /\ \A z \in Sizes(cks) : cks.min <= z
        /\ cks.max \in Sizes(cks) /\ \A z \in Sizes(cks) : z <= cks.max


\* ------------------------------------------------------------------ claims: deadlocks

\* A Write holds the mutex and waits to hand its bytes to the goroutine, and
\* the goroutine waits in setErr for the mutex: neither can move.
WriteDeadlock ==
    /\ pc["caller"] = "w_send"
    /\ wmutex = "caller"
    /\ pc["buffer"] = "g_seterr"

\* C34. No deadlock between Write and the buffer goroutine: when a threshold
\* flush fails while a Write holds the mutex and waits on the queue, the Write
\* still returns and the error is stored.
C34_NoWriteDeadlock == ~WriteDeadlock


\* The Add holds the set's mutex and waits in the hook for the entry's mutex;
\* the Truncate holds the entry's mutex and waits in Clear for the set's mutex.
LockDeadlock ==
    /\ etr.add = "a_hook" /\ etr.cmu = "add"
    /\ etr.pc = "t_clear" /\ etr.emu = "truncate"

\* C35. No lock-order deadlock between the Chunk Set and the Entry: an Add
\* running concurrently with Entry.Truncate never leaves each of the two
\* waiting for the mutex the other holds.
C35_NoLockDeadlock == ~LockDeadlock


\* ------------------------------------------------------------------ claims: Seek and Read

\* C36. Whenever Seek has returned (p, nil) the reader's position is p: the
\* Reads after it deliver the bytes of the file from p on, and none at all when
\* p is at or beyond the size.
C36_SeekSetsPosition ==
    (ropen /\ ~rfault) =>
        /\ (rlast.op = "Seek" /\ rlast.err = "nil") => roffset = rlast.n
        /\ rstart >= rsize => rdelivered = <<>>
        /\ rstart <= rsize => rdelivered = FileFrom(rstart, Len(rdelivered))


\* C37. A failed Seek does not leave the reader half-updated: the Read after a
\* Seek that returned an error, when it returns no error, has delivered bytes
\* of the position the reader had before the Seek.
C37_FailedSeek ==
    [][(/\ rlast.op = "Seek" /\ rlast.err = "seek"
        /\ rstart <= rsize
        /\ rlast'.op = "Read" /\ rlast'.err = "nil")
          => (rlast'.n > 0 /\ rdelivered' = FileFrom(rstart, Len(rdelivered')))]_vars

\* C39. Read makes progress: a Read with a non-empty buffer that returns no
\* error has delivered at least one byte, also after Close, with no fetch and
\* no Seek having failed.
C39_ReadProgress ==
    (rlast.op = "Read" /\ rlast.err = "nil" /\ ~rfault) => rlast.n > 0

\* --------------------------------------------- a Writer on a file that has chunks

\* A stored file of one chunk opened for writing without truncation: newFile
\* hands the entry's Chunk Set, with the chunk of the file, to a Writer whose
\* offset starts at 0; the master assigns file ids past that of the stored chunk.
InitOverwrite ==
    /\ via = "file"
    /\ chunkSize \in 1..MaxChunkSize
    /\ \E szs \in ChunkSizes :
         /\ Len(szs) = 1
         /\ cks \in Written(Descriptors(szs))
         /\ volume = StoredFile(Descriptors(szs))
         /\ nextFid = Len(szs) + 1
    /\ pb \in EntryUpdate(NewFilePB, cks)
    /\ WriterIdle
    /\ ReaderNone
    /\ cop = NoOp /\ XNone

SpecOverwrite == InitOverwrite /\ [][Next]_vars

\* ------------------------------------------------------------------ claims: overwriting

\* The chunks of the Chunk Set are those of the uploads the data nodes answered
\* with the chunk's size.
Recorded(fid) == \E c \in cks.m : c.fid = fid

\* C38. Every chunk the Writer uploaded successfully is recorded in the Chunk
\* Set, also when the set already held chunks when the Writer was attached to
\* it: no chunk is dropped because a chunk of the set has its offset and size.
C38_UploadsRecorded ==
    \A u \in uploads : u.outcome = "ok" => Recorded(u.fid)

====
